---- MODULE Spec2Model ----
(***************************************************************************)
(* Model of the scene of bonoboris/satisfied (app/scene.go): the object    *)
(* collection (paths, buildings, text boxes), the undo / redo history of   *)
(* scene operations, the saved position, and hit-testing (GetObjectAt).    *)
(*                                                                         *)
(* Indices stored in selections and object references are 0-based, as in   *)
(* the Go code; a sequence s is read at Go index i as s[i + 1].            *)
(***************************************************************************)
EXTENDS Integers, Sequences, FiniteSets, TLC

VARIABLES
    Paths,            \* Scene.ObjectCollection.Paths
    Buildings,        \* Scene.ObjectCollection.Buildings
    TextBoxes,        \* Scene.ObjectCollection.TextBoxes
    history,          \* Scene.history
    historyPos,       \* Scene.historyPos
    savedHistoryPos,  \* Scene.savedHistoryPos
    Hovered,          \* Scene.Hovered
    selection,        \* the global selection read by GetObjectAt
    mouse,            \* mouse.Pos as read by the last Scene.Update
    panicked,         \* TRUE once a Go runtime panic (index out of range) has occurred
    ret,              \* the last call: its name, its boolean result, the selection it computed
    rt,               \* observer: progress of an Apply; Undo; Redo round trip (0..3)
    before,           \* observer: the collection just before the last Apply or LoadFromText
    after,            \* observer: the collection and position just after the last Apply
    savedCol,         \* observer: the collection at the last ResetModified (or at construction)
    ids,              \* observer: a serial number for each entry of history
    discarded,        \* observer: serial numbers of the operations trimmed from history
    applied,          \* observer: number of operations recorded so far
    sink,             \* the io.Writer given to the last SaveToText: what it received, whether it failed
    sinkOf,           \* observer: the collection the last SaveToText was called on
    reader,           \* observer: the text given to the last LoadFromText, the line it stopped at
    err,              \* the error returned by the last SaveToText / LoadFromText
    loads,            \* observer: number of LoadFromText calls on this scene
    col0,             \* observer: the collection at construction
    trip              \* observer: the current run of Undos then Redos, the collection before it

vars == <<Paths, Buildings, TextBoxes, history, historyPos, savedHistoryPos, Hovered,
          selection, mouse, panicked, ret, rt, before, after, savedCol, ids, discarded, applied,
          sink, sinkOf, reader, err, loads, col0, trip>>

\* The variables only SaveToText / LoadFromText write
codecVars == <<sink, sinkOf, reader, err, loads>>

----------------------------------------------------------------------------
(* Bounds of the model *)

\* Largest number of operations recorded through doSceneOp in one behaviour.
MaxApply == 2

\* Largest number of LoadFromText calls in one behaviour.
MaxLoad == 1

\* Largest number of operations recorded in one behaviour of the saved-position
\* specification.
MaxSaved == 3

\* Largest number of DeleteObjects calls in one behaviour of the deletion specification.
MaxDelete == 1

\* Largest number of lines after the first in a text given to LoadFromText.
MaxLines == 2

----------------------------------------------------------------------------
(* Object model *)

vec2(x, y) == [X |-> x, Y |-> y]

NewRect(x, y, w, h) == [X |-> x, Y |-> y, Width |-> w, Height |-> h]

ZeroRect == NewRect(0, 0, 0, 0)

Path(d, s, e) == [DefIdx |-> d, Start |-> s, End |-> e]

Building(d, p, r) == [DefIdx |-> d, Pos |-> p, Rot |-> r]

TextBox(b, c) == [Bounds |-> b, Content |-> c]

ObjectCollection(ps, bs, ts) == [Paths |-> ps, Buildings |-> bs, TextBoxes |-> ts]

EmptyCollection == ObjectCollection(<<>>, <<>>, <<>>)

PathSel(i, s, e) == [Idx |-> i, Start |-> s, End |-> e]

ObjectSelection(ps, bs, ts, r) ==
    [PathIdxs |-> ps, BuildingIdxs |-> bs, TextBoxIdxs |-> ts, Bounds |-> r]

EmptySelection == ObjectSelection(<<>>, <<>>, <<>>, ZeroRect)

Object(t, i) == [Type |-> t, Idx |-> i]

EmptyObject == Object("None", 0)

sceneOp(t, sel, old, new) == [Type |-> t, Sel |-> sel, Old |-> old, New |-> new]

\* The scene's embedded ObjectCollection
col == ObjectCollection(Paths, Buildings, TextBoxes)

----------------------------------------------------------------------------
(* Sequence helpers *)

Min2(a, b) == IF a < b THEN a ELSE b

Max2(a, b) == IF a > b THEN a ELSE b

SetMax(S) == CHOOSE m \in S : \A x \in S : x <= m

SetMin(S) == CHOOSE m \in S : \A x \in S : m <= x

\* s without its k-th element (k is a TLA+ position)
RemoveAt(s, k) == [i \in 1..(Len(s) - 1) |-> IF i < k THEN s[i] ELSE s[i + 1]]

\* Range(a, b) = [a, a+1, ..., b-1]
Range(a, b) == [i \in 1..(b - a) |-> a + i - 1]

\* CopyIdxs(dst, src, idxs): dst followed by src[i] for each i of idxs, in idxs' order
CopyIdxs(dst, src, idxs) == dst \o [i \in 1..Len(idxs) |-> src[idxs[i] + 1]]

\* Removal of one element: the last element moves into the vacated slot
SwapDelete(s, idx) ==
    [i \in 1..(Len(s) - 1) |-> IF i = idx + 1 THEN s[Len(s)] ELSE s[i]]

\* Inverse of SwapDelete: the element at idx goes back to the end, v takes its slot
SwapInsert(s, idx, v) ==
    IF idx = Len(s) THEN Append(s, v)
    ELSE Append([s EXCEPT ![idx + 1] = v], s[idx + 1])

RECURSIVE SwapDeleteMany(_, _)
\* Removes the elements at idxs, highest index first, so that no removal moves
\* an element that is still to be removed
SwapDeleteMany(s, idxs) ==
    IF Len(idxs) = 0 THEN s
    ELSE LET m == SetMax({idxs[i] : i \in 1..Len(idxs)})
             k == CHOOSE i \in 1..Len(idxs) : idxs[i] = m
         IN  SwapDeleteMany(SwapDelete(s, m), RemoveAt(idxs, k))

RECURSIVE SwapInsertMany(_, _, _)
\* Re-inserts elts[i] at idxs[i], lowest index first: the swap-deletions replayed in reverse
SwapInsertMany(s, idxs, elts) ==
    IF Len(idxs) = 0 THEN s
    ELSE LET m == SetMin({idxs[i] : i \in 1..Len(idxs)})
             k == CHOOSE i \in 1..Len(idxs) : idxs[i] = m
         IN  SwapInsertMany(SwapInsert(s, m, elts[k]), RemoveAt(idxs, k), RemoveAt(elts, k))

RECURSIVE Overwrite(_, _, _)
\* for i, idx := range idxs { s[idx] = elts[i] }
Overwrite(s, idxs, elts) ==
    IF Len(idxs) = 0 THEN s
    ELSE Overwrite([s EXCEPT ![idxs[1] + 1] = elts[1]], Tail(idxs), Tail(elts))

----------------------------------------------------------------------------
(* Selection *)

RECURSIVE FullPathIdxs(_)
\* indices of the paths selected with both flags set, in selection order
FullPathIdxs(pathIdxs) ==
    IF Len(pathIdxs) = 0 THEN <<>>
    ELSE (IF pathIdxs[1].Start /\ pathIdxs[1].End THEN <<pathIdxs[1].Idx>> ELSE <<>>)
         \o FullPathIdxs(Tail(pathIdxs))

\* indices of all the paths of the selection, whatever their flags
AnyPathIdxs(pathIdxs) == [i \in 1..Len(pathIdxs) |-> pathIdxs[i].Idx]

\* TRUE when every index of sel names an element of c
SelInRange(sel, c) ==
    /\ \A i \in 1..Len(sel.PathIdxs) :
          sel.PathIdxs[i].Idx >= 0 /\ sel.PathIdxs[i].Idx < Len(c.Paths)
    /\ \A i \in 1..Len(sel.BuildingIdxs) :
          sel.BuildingIdxs[i] >= 0 /\ sel.BuildingIdxs[i] < Len(c.Buildings)
    /\ \A i \in 1..Len(sel.TextBoxIdxs) :
          sel.TextBoxIdxs[i] >= 0 /\ sel.TextBoxIdxs[i] < Len(c.TextBoxes)

----------------------------------------------------------------------------
(* Geometry of the objects *)

\* Path bounds: the rectangle spanned by the two end points
PathBounds(p) ==
    NewRect(Min2(p.Start.X, p.End.X), Min2(p.Start.Y, p.End.Y),
            Max2(p.Start.X, p.End.X) - Min2(p.Start.X, p.End.X),
            Max2(p.Start.Y, p.End.Y) - Min2(p.Start.Y, p.End.Y))

\* Building bounds: a unit cell at the building's position
BuildingBounds(b) == NewRect(b.Pos.X, b.Pos.Y, 1, 1)

\* Rectangle.CheckCollisionPoint
RectCheckCollisionPoint(r, pos) ==
    /\ pos.X >= r.X /\ pos.X < r.X + r.Width
    /\ pos.Y >= r.Y /\ pos.Y < r.Y + r.Height

\* Path.CheckStartCollisionPoint: the start hit-zone
CheckStartCollisionPoint(p, pos) == pos = p.Start

\* Path.CheckEndCollisionPoint: the end hit-zone
CheckEndCollisionPoint(p, pos) == pos = p.End

\* Path.CheckCollisionPoint: the whole path, end points included
CheckCollisionPoint(p, pos) ==
    /\ pos.X >= Min2(p.Start.X, p.End.X) /\ pos.X <= Max2(p.Start.X, p.End.X)
    /\ pos.Y >= Min2(p.Start.Y, p.End.Y) /\ pos.Y <= Max2(p.Start.Y, p.End.Y)

\* Smallest rectangle holding every rectangle of the non-empty set S
UnionRects(S) ==
    LET x0 == SetMin({r.X : r \in S})
        y0 == SetMin({r.Y : r \in S})
        x1 == SetMax({r.X + r.Width : r \in S})
        y1 == SetMax({r.Y + r.Height : r \in S})
    IN  NewRect(x0, y0, x1 - x0, y1 - y0)

\* Bounds of the objects sel refers to in c (sel in range)
SelRects(sel, c) ==
    {PathBounds(c.Paths[sel.PathIdxs[i].Idx + 1]) : i \in 1..Len(sel.PathIdxs)}
    \cup {BuildingBounds(c.Buildings[sel.BuildingIdxs[i] + 1]) : i \in 1..Len(sel.BuildingIdxs)}
    \cup {c.TextBoxes[sel.TextBoxIdxs[i] + 1].Bounds : i \in 1..Len(sel.TextBoxIdxs)}

\* ObjectSelection.recomputeBounds: [sel, panic]; indexing outside c panics
recomputeBounds(sel, c) ==
    IF ~SelInRange(sel, c) THEN [sel |-> sel, panic |-> TRUE]
    ELSE [sel |-> [sel EXCEPT !.Bounds =
                        IF SelRects(sel, c) = {} THEN ZeroRect ELSE UnionRects(SelRects(sel, c))],
          panic |-> FALSE]

----------------------------------------------------------------------------
(* sceneOp: do / redo / undo *)

\* result of redo / undo: the collection, the returned selection, whether it panicked
OpResult(c, sel, panic) == [col |-> c, sel |-> sel, panic |-> panic]

\* SceneOpAdd: append op.New to each sequence
doAdd(op, c) ==
    ObjectCollection(c.Paths \o op.New.Paths,
                     c.Buildings \o op.New.Buildings,
                     c.TextBoxes \o op.New.TextBoxes)

\* Faulty do of a Delete: every path of the selection is removed, partial ones included
doDeleteAnyPaths(op, c) ==
    ObjectCollection(SwapDeleteMany(c.Paths, AnyPathIdxs(op.Sel.PathIdxs)),
                     SwapDeleteMany(c.Buildings, op.Sel.BuildingIdxs),
                     SwapDeleteMany(c.TextBoxes, op.Sel.TextBoxIdxs))

\* SceneOpDelete: swap-delete the full paths, the buildings and the text boxes of op.Sel
doDelete(op, c) ==
    ObjectCollection(SwapDeleteMany(c.Paths, FullPathIdxs(op.Sel.PathIdxs)),
                     SwapDeleteMany(c.Buildings, op.Sel.BuildingIdxs),
                     SwapDeleteMany(c.TextBoxes, op.Sel.TextBoxIdxs))

\* Faulty do of a Modify: the positions are overwritten with the old values
doModifyOld(op, c) ==
    ObjectCollection(Overwrite(c.Paths, AnyPathIdxs(op.Sel.PathIdxs), op.Old.Paths),
                     Overwrite(c.Buildings, op.Sel.BuildingIdxs, op.Old.Buildings),
                     Overwrite(c.TextBoxes, op.Sel.TextBoxIdxs, op.Old.TextBoxes))

\* SceneOpModify: overwrite the selected positions with op.New
doModify(op, c) ==
    ObjectCollection(Overwrite(c.Paths, AnyPathIdxs(op.Sel.PathIdxs), op.New.Paths),
                     Overwrite(c.Buildings, op.Sel.BuildingIdxs, op.New.Buildings),
                     Overwrite(c.TextBoxes, op.Sel.TextBoxIdxs, op.New.TextBoxes))

\* sceneOp.do
do(op, c) ==
    CASE op.Type = "add" -> doAdd(op, c)
      [] op.Type = "delete" -> doDelete(op, c)
      [] op.Type = "modify" -> doModify(op, c)

\* The selection built by redo of an Add, before its bounds are recomputed:
\* n is read after the append, and the path entries are n + i
redoAddSel(op, c) ==
    LET n == Len(c.Paths)
    IN  ObjectSelection(
            [i \in 1..Len(op.New.Paths) |-> PathSel(n + (i - 1), TRUE, TRUE)],
            Range(Len(c.Buildings) - Len(op.New.Buildings), Len(c.Buildings)),
            Range(Len(c.TextBoxes) - Len(op.New.TextBoxes), Len(c.TextBoxes)),
            ZeroRect)

\* redo, SceneOpAdd
redoAdd(op, c) ==
    LET c2 == doAdd(op, c)
        r == recomputeBounds(redoAddSel(op, c2), c2)
    IN  OpResult(c2, r.sel, r.panic)

\* Faulty redo of a Delete: removes every path of the selection, partial ones included
redoDeleteAnyPaths(op, c) ==
    OpResult(ObjectCollection(SwapDeleteMany(c.Paths, AnyPathIdxs(op.Sel.PathIdxs)),
                              SwapDeleteMany(c.Buildings, op.Sel.BuildingIdxs),
                              SwapDeleteMany(c.TextBoxes, op.Sel.TextBoxIdxs)),
             EmptySelection, FALSE)

\* redo, SceneOpDelete: newSel stays the zero value
redoDelete(op, c) == OpResult(doDelete(op, c), EmptySelection, FALSE)

\* redo, SceneOpModify
redoModify(op, c) ==
    LET c2 == doModify(op, c)
        r == recomputeBounds(op.Sel, c2)
    IN  OpResult(c2, r.sel, r.panic)

\* sceneOp.redo
redo(op, c) ==
    CASE op.Type = "add" -> redoAdd(op, c)
      [] op.Type = "delete" -> redoDelete(op, c)
      [] op.Type = "modify" -> redoModify(op, c)

\* Faulty undo of an Add: the paths are cut by the number of added buildings
undoAddWrongLen(op, c) ==
    OpResult(ObjectCollection(SubSeq(c.Paths, 1, Len(c.Paths) - Len(op.New.Buildings)),
                              SubSeq(c.Buildings, 1, Len(c.Buildings) - Len(op.New.Buildings)),
                              SubSeq(c.TextBoxes, 1, Len(c.TextBoxes) - Len(op.New.TextBoxes))),
             EmptySelection, FALSE)

\* undo, SceneOpAdd: drop the last len(op.New.X) elements; newSel stays the zero value
undoAdd(op, c) ==
    OpResult(ObjectCollection(SubSeq(c.Paths, 1, Len(c.Paths) - Len(op.New.Paths)),
                              SubSeq(c.Buildings, 1, Len(c.Buildings) - Len(op.New.Buildings)),
                              SubSeq(c.TextBoxes, 1, Len(c.TextBoxes) - Len(op.New.TextBoxes))),
             EmptySelection, FALSE)

\* Faulty undo of a Delete: the deleted objects come back at the end of each sequence
undoDeleteAppends(op, c) ==
    OpResult(ObjectCollection(c.Paths \o op.Old.Paths,
                              c.Buildings \o op.Old.Buildings,
                              c.TextBoxes \o op.Old.TextBoxes),
             op.Sel, FALSE)

\* undo, SceneOpDelete: re-insert op.Old; newSel = op.Sel, bounds untouched
undoDelete(op, c) ==
    OpResult(ObjectCollection(
                 SwapInsertMany(c.Paths, FullPathIdxs(op.Sel.PathIdxs), op.Old.Paths),
                 SwapInsertMany(c.Buildings, op.Sel.BuildingIdxs, op.Old.Buildings),
                 SwapInsertMany(c.TextBoxes, op.Sel.TextBoxIdxs, op.Old.TextBoxes)),
             op.Sel, FALSE)

\* Faulty undo of a Modify: the bounds of the returned selection are not recomputed
undoModifyKeepBounds(op, c) ==
    OpResult(ObjectCollection(
                 Overwrite(c.Paths, AnyPathIdxs(op.Sel.PathIdxs), op.Old.Paths),
                 Overwrite(c.Buildings, op.Sel.BuildingIdxs, op.Old.Buildings),
                 Overwrite(c.TextBoxes, op.Sel.TextBoxIdxs, op.Old.TextBoxes)),
             op.Sel, FALSE)

\* undo, SceneOpModify: overwrite with op.Old; newSel = op.Sel with recomputed bounds
undoModify(op, c) ==
    LET c2 == ObjectCollection(
                  Overwrite(c.Paths, AnyPathIdxs(op.Sel.PathIdxs), op.Old.Paths),
                  Overwrite(c.Buildings, op.Sel.BuildingIdxs, op.Old.Buildings),
                  Overwrite(c.TextBoxes, op.Sel.TextBoxIdxs, op.Old.TextBoxes))
        r == recomputeBounds(op.Sel, c2)
    IN  OpResult(c2, r.sel, r.panic)

\* sceneOp.undo
undo(op, c) ==
    CASE op.Type = "add" -> undoAdd(op, c)
      [] op.Type = "delete" -> undoDelete(op, c)
      [] op.Type = "modify" -> undoModify(op, c)

----------------------------------------------------------------------------
(* Hit-testing *)

\* result of a scan: found an object, found nothing, or panicked on a bad index
Hit(o) == [found |-> TRUE, obj |-> o, panic |-> FALSE]

Miss == [found |-> FALSE, obj |-> EmptyObject, panic |-> FALSE]

Panic == [found |-> FALSE, obj |-> EmptyObject, panic |-> TRUE]

RECURSIVE ScanSelPaths(_, _, _, _)
\* for i := len(selection.PathIdxs) - 1; i >= 0; i-- (i is the TLA+ position)
ScanSelPaths(i, sel, c, pos) ==
    IF i = 0 THEN Miss
    ELSE LET elt == sel.PathIdxs[i]
         IN  IF elt.Idx < 0 \/ elt.Idx >= Len(c.Paths) THEN Panic
             ELSE LET p == c.Paths[elt.Idx + 1]
                  IN  IF elt.Start /\ CheckStartCollisionPoint(p, pos)
                          THEN Hit(Object("PathStart", elt.Idx))
                      ELSE IF elt.End /\ CheckEndCollisionPoint(p, pos)
                          THEN Hit(Object("PathEnd", elt.Idx))
                      ELSE IF CheckCollisionPoint(p, pos)
                          THEN Hit(Object("Path", elt.Idx))
                      ELSE ScanSelPaths(i - 1, sel, c, pos)

RECURSIVE ScanSelBuildings(_, _, _, _)
\* for i := len(selection.BuildingIdxs) - 1; i >= 0; i--
ScanSelBuildings(i, sel, c, pos) ==
    IF i = 0 THEN Miss
    ELSE LET idx == sel.BuildingIdxs[i]
         IN  IF idx < 0 \/ idx >= Len(c.Buildings) THEN Panic
             ELSE IF RectCheckCollisionPoint(BuildingBounds(c.Buildings[idx + 1]), pos)
                 THEN Hit(Object("Building", idx))
             ELSE ScanSelBuildings(i - 1, sel, c, pos)

RECURSIVE ScanSelTextBoxes(_, _, _, _)
\* for i := len(selection.TextBoxIdxs) - 1; i >= 0; i--
ScanSelTextBoxes(i, sel, c, pos) ==
    IF i = 0 THEN Miss
    ELSE LET idx == sel.TextBoxIdxs[i]
         IN  IF idx < 0 \/ idx >= Len(c.TextBoxes) THEN Panic
             ELSE IF RectCheckCollisionPoint(c.TextBoxes[idx + 1].Bounds, pos)
                 THEN Hit(Object("TextBox", idx))
             ELSE ScanSelTextBoxes(i - 1, sel, c, pos)

RECURSIVE ScanPaths(_, _, _)
\* for i := len(s.Paths) - 1; i >= 0; i-- (i is the TLA+ position, i - 1 the Go index)
ScanPaths(i, c, pos) ==
    IF i = 0 THEN Miss
    ELSE LET p == c.Paths[i]
         IN  IF CheckStartCollisionPoint(p, pos) THEN Hit(Object("PathStart", i - 1))
             ELSE IF CheckEndCollisionPoint(p, pos) THEN Hit(Object("PathEnd", i - 1))
             ELSE IF CheckCollisionPoint(p, pos) THEN Hit(Object("Path", i - 1))
             ELSE ScanPaths(i - 1, c, pos)

RECURSIVE ScanBuildings(_, _, _)
\* for i := len(s.Buildings) - 1; i >= 0; i--
ScanBuildings(i, c, pos) ==
    IF i = 0 THEN Miss
    ELSE IF RectCheckCollisionPoint(BuildingBounds(c.Buildings[i]), pos)
        THEN Hit(Object("Building", i - 1))
    ELSE ScanBuildings(i - 1, c, pos)

RECURSIVE ScanTextBoxes(_, _, _)
\* for i := len(s.TextBoxes) - 1; i >= 0; i--
ScanTextBoxes(i, c, pos) ==
    IF i = 0 THEN Miss
    ELSE IF RectCheckCollisionPoint(c.TextBoxes[i].Bounds, pos)
        THEN Hit(Object("TextBox", i - 1))
    ELSE ScanTextBoxes(i - 1, c, pos)

\* r if it ended the search (a hit or a panic), else next
OrElse(r, next) == IF r.found \/ r.panic THEN r ELSE next

\* Faulty hit-test: the selected buildings are scanned before the selected paths
ObjectAtBuildingsFirst(c, sel, pos) ==
    OrElse(ScanSelBuildings(Len(sel.BuildingIdxs), sel, c, pos),
    OrElse(ScanSelPaths(Len(sel.PathIdxs), sel, c, pos),
    OrElse(ScanSelTextBoxes(Len(sel.TextBoxIdxs), sel, c, pos),
    OrElse(ScanPaths(Len(c.Paths), c, pos),
    OrElse(ScanBuildings(Len(c.Buildings), c, pos),
           ScanTextBoxes(Len(c.TextBoxes), c, pos))))))

\* Scene.GetObjectAt on collection c with the global selection sel
ObjectAt(c, sel, pos) ==
    OrElse(ScanSelPaths(Len(sel.PathIdxs), sel, c, pos),
    OrElse(ScanSelBuildings(Len(sel.BuildingIdxs), sel, c, pos),
    OrElse(ScanSelTextBoxes(Len(sel.TextBoxIdxs), sel, c, pos),
    OrElse(ScanPaths(Len(c.Paths), c, pos),
    OrElse(ScanBuildings(Len(c.Buildings), c, pos),
           ScanTextBoxes(Len(c.TextBoxes), c, pos))))))

\* Scene.GetObjectAt
GetObjectAt(pos) == ObjectAt(col, selection, pos)

----------------------------------------------------------------------------
(* Inputs of the model *)

P1 == Path(0, vec2(0, 0), vec2(2, 0))

P2 == Path(1, vec2(1, 0), vec2(1, 1))

B1 == Building(0, vec2(1, 0), 0)

B2 == Building(1, vec2(0, 0), 1)

B3 == Building(1, vec2(1, 0), 1)

T1 == TextBox(NewRect(0, 0, 2, 1), "a")

T2 == TextBox(NewRect(1, 0, 1, 2), "b")

\* Values written by ModifyObjects
P3 == Path(0, vec2(1, 1), vec2(3, 1))

B4 == Building(0, vec2(2, 2), 2)

T3 == TextBox(NewRect(2, 1, 1, 1), "c")

PathVals == {P1}

BuildingVals == {B1}

TextBoxVals == {T2}

\* Collections given to AddObjects
AddCols == {ObjectCollection(<<P2, P1>>, <<B2>>, <<T1>>)}

\* A scene as left by a load: objects, no history
LoadedCol == ObjectCollection(<<P1, P2>>, <<B1, B2, B3>>, <<T1, T2>>)

InitCols == {EmptyCollection, LoadedCol}

\* A selection rectangle that matches no object: bounds cached before the objects moved
StaleRect == NewRect(7, 7, 1, 1)

\* Points given to GetObjectAt
Points == {vec2(0, 0), vec2(1, 0), vec2(2, 0), vec2(1, 1), vec2(5, 5)}

\* Mouse positions of Scene.Update in the history specification
HoverPoints == {vec2(1, 0)}

\* Sequences of length <= k of distinct elements of S
RECURSIVE InjSeqs(_, _)
InjSeqs(S, k) ==
    IF k = 0 THEN {<<>>}
    ELSE {<<>>} \cup {u \in {<<x>> \o t : x \in S, t \in InjSeqs(S, k - 1)} :
                         \A i \in 2..Len(u) : u[i] # u[1]}

\* The flags of a selected path: whole path, start only, end only
PathFlags == {<<TRUE, TRUE>>, <<TRUE, FALSE>>, <<FALSE, TRUE>>}

\* Path parts of selections: distinct path indices, each with its flags
PathSelSeqs(n, k) ==
    UNION {{[i \in 1..Len(is) |-> PathSel(is[i], f[i][1], f[i][2])] :
               f \in [1..Len(is) -> PathFlags]} : is \in InjSeqs(0..(n - 1), k)}

\* The selections of c with at most k objects of each kind, bounds up to date
Sels(c, k) ==
    {recomputeBounds(ObjectSelection(ps, bs, ts, ZeroRect), c).sel :
        ps \in PathSelSeqs(Len(c.Paths), k),
        bs \in InjSeqs(0..(Len(c.Buildings) - 1), k),
        ts \in InjSeqs(0..(Len(c.TextBoxes) - 1), k)}

\* Selections whose cached bounds are up to date when they are passed
FreshShapes ==
    { ObjectSelection(<<PathSel(1, TRUE, TRUE), PathSel(0, FALSE, TRUE)>>, <<>>, <<0>>, ZeroRect),
      ObjectSelection(<<PathSel(0, TRUE, TRUE)>>, <<0, 1>>, <<>>, ZeroRect),
      ObjectSelection(<<>>, <<0>>, <<>>, ZeroRect) }

\* Selections whose cached bounds are out of date when they are passed
StaleShapes ==
    { ObjectSelection(<<PathSel(1, TRUE, FALSE)>>, <<>>, <<1, 0>>, StaleRect),
      ObjectSelection(<<>>, <<2, 0>>, <<>>, StaleRect) }

\* The selections a caller passes to DeleteObjects / ModifyObjects on collection c:
\* distinct indices, all in range, in any order
CallerSels(c) ==
    {recomputeBounds(sel, c).sel : sel \in {x \in FreshShapes : SelInRange(x, c)}}
    \cup {x \in StaleShapes : SelInRange(x, c)}

\* k values alternating between a and b
Alternate(k, a, b) == [i \in 1..k |-> IF i % 2 = 1 THEN a ELSE b]

\* New values aligned 1:1 with the index lists of sel
NewValues(sel) ==
    { ObjectCollection(Alternate(Len(sel.PathIdxs), P3, P1),
                       Alternate(Len(sel.BuildingIdxs), B4, B2),
                       Alternate(Len(sel.TextBoxIdxs), T3, T1)) }

----------------------------------------------------------------------------
(* Scene *)

\* The record of the last call: its name, whether it took its success branch, and the
\* selection it computed
Ret(name, ok, sel) == [op |-> name, ok |-> ok, sel |-> sel]

\* Faulty trim: the undone operations are kept
TrimNothing(h, pos) == h

\* Faulty trim: one operation too many is dropped
TrimOneMore(h, pos) == SubSeq(h, 1, pos - 1)

\* s.history[:s.historyPos]: trim any undone operations
Trim(h, pos) == SubSeq(h, 1, pos)

\* selection.doInitSelection: the global selection becomes sel
doInitSelection(sel) == sel

\* Faulty modified flag: only a position past the saved one counts
IsModifiedPastSaved == historyPos > savedHistoryPos

\* Scene.IsModified
IsModified == historyPos # savedHistoryPos

\* Scene.HasUndo
HasUndo == historyPos > 0

\* Scene.HasRedo
HasRedo == historyPos < Len(history)

\* The observers' variables that only doSceneOp writes
applyObs == <<before, after, ids, discarded, applied>>

\* No run of Undos in progress
noTrip == [undos |-> 0, redos |-> 0, col |-> EmptyCollection]

\* The run after a successful Undo from collection c: it goes on when no Redo followed
\* the Undos so far, else a new run starts at c
tripUndo(t, c) ==
    IF t.undos > 0 /\ t.redos = 0 THEN [t EXCEPT !.undos = @ + 1]
    ELSE [undos |-> 1, redos |-> 0, col |-> c]

\* The run after a successful Redo: one more Redo while fewer Redos than Undos were made
tripRedo(t) == IF t.redos < t.undos THEN [t EXCEPT !.redos = @ + 1] ELSE noTrip

\* Scene.doSceneOp, called by the mutator `name`
doSceneOp(op, name) ==
    /\ ~panicked
    /\ history' = Append(Trim(history, historyPos), op)
    /\ Paths' = do(op, col).Paths
    /\ Buildings' = do(op, col).Buildings
    /\ TextBoxes' = do(op, col).TextBoxes
    /\ historyPos' = historyPos + 1
    /\ Hovered' = EmptyObject
    /\ ret' = Ret(name, TRUE, EmptySelection)
    /\ rt' = 1
    /\ before' = col
    /\ after' = [col |-> col', pos |-> historyPos']
    /\ ids' = Append(Trim(ids, historyPos), applied + 1)
    /\ discarded' = discarded \cup {ids[i] : i \in (historyPos + 1)..Len(ids)}
    /\ applied' = applied + 1
    /\ trip' = noTrip
    /\ UNCHANGED <<savedHistoryPos, selection, mouse, panicked, savedCol, codecVars, col0>>

\* Scene.AddPath
AddPath(path) ==
    doSceneOp(sceneOp("add", EmptySelection, EmptyCollection,
                      ObjectCollection(<<path>>, <<>>, <<>>)), "AddPath")

\* Scene.AddBuilding
AddBuilding(building) ==
    doSceneOp(sceneOp("add", EmptySelection, EmptyCollection,
                      ObjectCollection(<<>>, <<building>>, <<>>)), "AddBuilding")

\* Scene.AddTextBox
AddTextBox(tb) ==
    doSceneOp(sceneOp("add", EmptySelection, EmptyCollection,
                      ObjectCollection(<<>>, <<>>, <<tb>>)), "AddTextBox")

\* Scene.AddObjects
AddObjects(c) ==
    doSceneOp(sceneOp("add", EmptySelection, EmptyCollection, c), "AddObjects")

\* The Old snapshot of DeleteObjects: buildings, full paths, text boxes of sel
DeleteOld(sel, c) ==
    ObjectCollection(CopyIdxs(<<>>, c.Paths, FullPathIdxs(sel.PathIdxs)),
                     CopyIdxs(<<>>, c.Buildings, sel.BuildingIdxs),
                     CopyIdxs(<<>>, c.TextBoxes, sel.TextBoxIdxs))

\* Scene.DeleteObjects
DeleteObjects(sel) ==
    doSceneOp(sceneOp("delete", sel, DeleteOld(sel, col), EmptyCollection), "DeleteObjects")

\* The Old snapshot of ModifyObjects: buildings, any paths, text boxes of sel
ModifyOld(sel, c) ==
    ObjectCollection(CopyIdxs(<<>>, c.Paths, AnyPathIdxs(sel.PathIdxs)),
                     CopyIdxs(<<>>, c.Buildings, sel.BuildingIdxs),
                     CopyIdxs(<<>>, c.TextBoxes, sel.TextBoxIdxs))

\* Scene.ModifyObjects
ModifyObjects(sel, new) ==
    doSceneOp(sceneOp("modify", sel, ModifyOld(sel, col), new), "ModifyObjects")

\* Undo / Redo, success branch: r is what op.undo / op.redo computed, pos the new position
histStep(name, r, pos, round) ==
    /\ historyPos' = pos
    /\ Hovered' = EmptyObject
    /\ Paths' = r.col.Paths
    /\ Buildings' = r.col.Buildings
    /\ TextBoxes' = r.col.TextBoxes
    /\ panicked' = r.panic
    /\ selection' = IF r.panic THEN selection ELSE doInitSelection(r.sel)
    /\ ret' = Ret(name, TRUE, r.sel)
    /\ rt' = round
    /\ trip' = IF r.panic THEN trip
               ELSE IF name = "Undo" THEN tripUndo(trip, col) ELSE tripRedo(trip)
    /\ UNCHANGED <<history, savedHistoryPos, savedCol, applyObs, codecVars, col0>>

\* Faulty failure branch: the hovered object is invalidated although nothing was done
histNothingClearsHovered(name, hov) ==
    /\ Hovered' = EmptyObject
    /\ ret' = Ret(name, FALSE, EmptySelection)
    /\ rt' = 0
    /\ UNCHANGED <<Paths, Buildings, TextBoxes, history, historyPos, savedHistoryPos,
                   selection, panicked, savedCol, applyObs, codecVars, col0, trip>>

\* Undo / Redo, failure branch: a warning is logged, false is returned
histNothing(name, hov) ==
    /\ Hovered' = hov
    /\ ret' = Ret(name, FALSE, EmptySelection)
    /\ rt' = 0
    /\ UNCHANGED <<Paths, Buildings, TextBoxes, history, historyPos, savedHistoryPos,
                   selection, panicked, savedCol, applyObs, codecVars, col0, trip>>

\* Scene.Undo entered with Hovered = hov
UndoCall(hov) ==
    IF historyPos > 0
    THEN histStep("Undo", undo(history[historyPos], col), historyPos - 1,
                  IF rt = 1 THEN 2 ELSE 0)
    ELSE histNothing("Undo", hov)

\* Scene.Redo entered with Hovered = hov
RedoCall(hov) ==
    IF historyPos < Len(history)
    THEN histStep("Redo", redo(history[historyPos + 1], col), historyPos + 1,
                  IF rt = 2 THEN 3 ELSE 0)
    ELSE histNothing("Redo", hov)

\* Scene.Undo
Undo == ~panicked /\ UndoCall(Hovered) /\ UNCHANGED mouse

\* Scene.Redo
Redo == ~panicked /\ RedoCall(Hovered) /\ UNCHANGED mouse

\* Scene.ResetModified
ResetModified ==
    /\ ~panicked
    /\ savedHistoryPos' = historyPos
    /\ savedCol' = col
    /\ ret' = Ret("ResetModified", TRUE, EmptySelection)
    /\ rt' = 0
    /\ UNCHANGED <<Paths, Buildings, TextBoxes, history, historyPos, Hovered,
                   selection, mouse, panicked, applyObs, codecVars, col0, trip>>

\* The key bindings Scene.Update reacts to (with Ctrl, in normal mode)
Bindings == {"none", "undo", "redo"}

\* Scene.Update: hover the object under the mouse, then undo / redo on a key binding
Update(pos, key) ==
    /\ ~panicked
    /\ mouse' = pos
    /\ LET h == GetObjectAt(pos)
       IN  IF h.panic
           THEN /\ panicked' = TRUE
                /\ ret' = Ret("Update", FALSE, EmptySelection)
                /\ rt' = 0
                /\ UNCHANGED <<Paths, Buildings, TextBoxes, history, historyPos,
                               savedHistoryPos, Hovered, selection, savedCol, applyObs,
                               codecVars, col0, trip>>
           ELSE CASE key = "undo" -> UndoCall(h.obj)
                  [] key = "redo" -> RedoCall(h.obj)
                  [] OTHER ->
                       /\ Hovered' = h.obj
                       /\ ret' = Ret("Update", TRUE, EmptySelection)
                       /\ rt' = 0
                       /\ UNCHANGED <<Paths, Buildings, TextBoxes, history, historyPos,
                                      savedHistoryPos, selection, panicked, savedCol,
                                      applyObs, codecVars, col0, trip>>

----------------------------------------------------------------------------
(* Text: strings are sequences of characters (one-character strings)        *)
(* Numbers of the model are integers: a float32 with an integral value is   *)
(* printed by %v as its decimal digits, and the texts of the model hold no  *)
(* decimal point or exponent.                                               *)

tagVersion == <<"#", "V", "E", "R", "S", "I", "O", "N">>

textboxClass == <<"T", "e", "x", "t", "B", "o", "x">>

\* The version SaveToText writes
version == 0

\* Size of the buffer of bufio.NewWriter
defaultBufSize == 4096

msgEmpty == "empty file"

msgInvalidVersionLine == "invalid first line, expected '#VERSION=x'"

msgInvalidVersionNumber == "invalid version, expected a positive integer"

msgVersionTooHigh == "version is too high"

msgInvalidPath == "invalid path line expected '[class] [startX] [startY] [endX] [endY]'"

msgInvalidBuilding == "invalid building line expected '[class] [posX] [posY] [rotation]'"

msgInvalidTextBox ==
    "invalid textbox line expected '[class] [posX] [posY] [width] [height] [content]'"

msgInvalidClass == "unknown class"

\* The error of the io.Writer, as SaveToText returns it
msgSink == "write error"

\* DecodeTextError{Msg, Err, Line, Version}; Err is TRUE when a low-level error is wrapped
DecodeTextError(msg, wrapped, line, ver) ==
    [Msg |-> msg, Err |-> wrapped, Line |-> line, Version |-> ver]

\* The nil error
nil == [Msg |-> "nil", Err |-> FALSE, Line |-> 0, Version |-> 0]

\* The path definitions registry: class names by definition index
pathDefs == << <<"p">>, <<"q">>, <<"x">>, textboxClass >>

\* The building definitions registry: class names by definition index
buildingDefs == << <<"b">>, <<"c">>, <<"x">> >>

\* defs.Index(class): the first index of class in defs, -1 when absent
DefIndex(defs, class) ==
    IF \E i \in 1..Len(defs) : defs[i] = class
    THEN SetMin({i \in 1..Len(defs) : defs[i] = class}) - 1
    ELSE -1

\* Def().Class of an object with definition index idx
DefClass(defs, idx) == defs[idx + 1]

Digits == <<"0", "1", "2", "3", "4", "5", "6", "7", "8", "9">>

IsDigit(c) == \E i \in 1..10 : Digits[i] = c

DigitVal(c) == (CHOOSE i \in 1..10 : Digits[i] = c) - 1

\* Characters fmt treats as spaces inside a line
Spaces == {" ", "\t", "\r"}

RECURSIVE FormatNat(_)
FormatNat(n) ==
    IF n < 10 THEN <<Digits[n + 1]>>
    ELSE FormatNat(n \div 10) \o <<Digits[(n % 10) + 1]>>

\* %d of an int, %v of a float32 with an integral value
FormatInt(n) == IF n < 0 THEN <<"-">> \o FormatNat(-n) ELSE FormatNat(n)

RECURSIVE Join(_, _)
\* the elements of ws separated by sep
Join(ws, sep) ==
    IF Len(ws) = 0 THEN <<>>
    ELSE IF Len(ws) = 1 THEN ws[1]
    ELSE ws[1] \o sep \o Join(Tail(ws), sep)

\* Position of the first c in s, 0 when absent
IndexOf(s, c) ==
    IF \E i \in 1..Len(s) : s[i] = c THEN SetMin({i \in 1..Len(s) : s[i] = c}) ELSE 0

\* Length of the longest prefix of s made of digits
DigitPrefixLen(s) ==
    IF \A i \in 1..Len(s) : IsDigit(s[i]) THEN Len(s)
    ELSE SetMin({i \in 1..Len(s) : ~IsDigit(s[i])}) - 1

RECURSIVE DigitsVal(_)
DigitsVal(ds) ==
    IF Len(ds) = 0 THEN 0
    ELSE 10 * DigitsVal(SubSeq(ds, 1, Len(ds) - 1)) + DigitVal(ds[Len(ds)])

\* s without its leading spaces
SkipSpace(s) ==
    IF \A i \in 1..Len(s) : s[i] \in Spaces THEN <<>>
    ELSE SubSeq(s, SetMin({i \in 1..Len(s) : s[i] \notin Spaces}), Len(s))

\* The digits of an operand of Sscanf, of which the longest prefix of u has n: no digit
\* is an error, what follows the digits is left unread
ScanDigits(u, neg, n) ==
    IF n = 0 THEN [ok |-> FALSE, val |-> 0, rest |-> u]
    ELSE [ok |-> TRUE,
          val |-> IF neg THEN -DigitsVal(SubSeq(u, 1, n)) ELSE DigitsVal(SubSeq(u, 1, n)),
          rest |-> SubSeq(u, n + 1, Len(u))]

\* The optional sign of an operand of Sscanf, then its digits
ScanSigned(t) ==
    IF Len(t) > 0 /\ t[1] \in {"+", "-"}
    THEN ScanDigits(Tail(t), t[1] = "-", DigitPrefixLen(Tail(t)))
    ELSE ScanDigits(t, FALSE, DigitPrefixLen(t))

\* One %d or %f operand of Sscanf: leading spaces are skipped, then an optional sign and
\* the longest run of digits are read
ScanNumber(s) == ScanSigned(SkipSpace(s))

\* A space of the format: at least one space of the input, or its end
MatchSpace(s) ==
    IF Len(s) = 0 THEN [ok |-> TRUE, rest |-> s]
    ELSE IF s[1] \notin Spaces THEN [ok |-> FALSE, rest |-> s]
    ELSE [ok |-> TRUE, rest |-> SkipSpace(s)]

RECURSIVE ScanOperands(_, _, _, _)
\* The k-th of n operands has been read as num: its value is kept, the next is read
ScanNext(num, k, n, vals) ==
    IF ~num.ok THEN [ok |-> FALSE, vals |-> vals]
    ELSE ScanOperands(num.rest, k + 1, n, Append(vals, num.val))

\* The k-th of n operands, after the separator before it was matched as sep
ScanOperand(sep, k, n, vals) ==
    IF ~sep.ok THEN [ok |-> FALSE, vals |-> vals]
    ELSE ScanNext(ScanNumber(sep.rest), k, n, vals)

\* The operands of fmt.Sscanf(s, "%f %f ...") from the k-th of n on, vals being the
\* values read so far: [ok, vals]; what follows the last operand is ignored
ScanOperands(s, k, n, vals) ==
    IF k > n THEN [ok |-> TRUE, vals |-> vals]
    ELSE ScanOperand(IF k = 1 THEN [ok |-> TRUE, rest |-> s] ELSE MatchSpace(s), k, n, vals)

\* fmt.Sscanf(fields, "%f %f %f %f", ...) and fmt.Sscanf(fields, "%f %f %d", ...)
Sscanf(fields, n) == ScanOperands(fields, 1, n, <<>>)

\* fmt.Sscanf(line, tagVersion+"=%d", &ver): the literal text must match, then an integer
SscanfVersion(line) ==
    LET lit == tagVersion \o <<"=">>
    IN  IF Len(line) >= Len(lit) /\ SubSeq(line, 1, Len(lit)) = lit
        THEN ScanNumber(SubSeq(line, Len(lit) + 1, Len(line)))
        ELSE [ok |-> FALSE, val |-> 0, rest |-> line]

\* The digits of ParseFloat32: u is made of digits, at least one
ParseDigits(u, neg) ==
    IF Len(u) > 0 /\ DigitPrefixLen(u) = Len(u)
    THEN [ok |-> TRUE, val |-> IF neg THEN -DigitsVal(u) ELSE DigitsVal(u)]
    ELSE [ok |-> FALSE, val |-> 0]

\* ParseFloat32(s): the whole of s is a number, an optional sign and digits
ParseFloat32(s) ==
    IF Len(s) > 0 /\ s[1] \in {"+", "-"} THEN ParseDigits(Tail(s), s[1] = "-")
    ELSE ParseDigits(s, FALSE)

\* strings.Cut(line, " "): what precedes and what follows the first space
Cut(line) ==
    LET i == IndexOf(line, " ")
    IN  IF i = 0 THEN [before |-> line, after |-> <<>>]
        ELSE [before |-> SubSeq(line, 1, i - 1), after |-> SubSeq(line, i + 1, Len(line))]

RECURSIVE SplitN(_, _)
\* strings.SplitN(s, " ", n), n > 0: at most n pieces, the last one unsplit
SplitN(s, n) ==
    LET i == IndexOf(s, " ")
    IN  IF n = 1 \/ i = 0 THEN <<s>>
        ELSE <<SubSeq(s, 1, i - 1)>> \o SplitN(SubSeq(s, i + 1, Len(s)), n - 1)

\* The escape sequence strconv.Quote writes for c
QuoteChar(c) ==
    CASE c = "\"" -> <<"\\", "\"">>
      [] c = "\\" -> <<"\\", "\\">>
      [] c = "\n" -> <<"\\", "n">>
      [] c = "\t" -> <<"\\", "t">>
      [] c = "\r" -> <<"\\", "r">>
      [] OTHER -> <<c>>

RECURSIVE EscapeAll(_)
EscapeAll(s) == IF Len(s) = 0 THEN <<>> ELSE QuoteChar(s[1]) \o EscapeAll(Tail(s))

\* Faulty quoting: the content is put between quotes as it is
QuoteRaw(s) == <<"\"">> \o s \o <<"\"">>

\* strconv.Quote
Quote(s) == <<"\"">> \o EscapeAll(s) \o <<"\"">>

RECURSIVE Unescape(_)
\* The inside of a double-quoted literal: [ok, val]; a bare quote, a raw newline, a
\* lone or unknown backslash escape are syntax errors
Unescape(s) ==
    IF Len(s) = 0 THEN [ok |-> TRUE, val |-> <<>>]
    ELSE IF s[1] \in {"\"", "\n"} THEN [ok |-> FALSE, val |-> <<>>]
    ELSE IF s[1] = "\\"
    THEN IF Len(s) < 2 \/ s[2] \notin {"\"", "\\", "n", "t", "r"}
         THEN [ok |-> FALSE, val |-> <<>>]
         ELSE LET c == CASE s[2] = "n" -> "\n"
                         [] s[2] = "t" -> "\t"
                         [] s[2] = "r" -> "\r"
                         [] OTHER -> s[2]
                  r == Unescape(SubSeq(s, 3, Len(s)))
              IN  [ok |-> r.ok, val |-> <<c>> \o r.val]
    ELSE LET r == Unescape(Tail(s))
         IN  [ok |-> r.ok, val |-> <<s[1]>> \o r.val]

\* strconv.Unquote of a double-quoted literal
Unquote(s) ==
    IF Len(s) < 2 \/ s[1] # "\"" \/ s[Len(s)] # "\"" THEN [ok |-> FALSE, val |-> <<>>]
    ELSE Unescape(SubSeq(s, 2, Len(s) - 1))

RECURSIVE ScanLines(_)
\* bufio.Scanner with the default split function: the lines of text without their
\* end-of-line marker (one trailing carriage return dropped); a last line without
\* marker counts when it is not empty
ScanLines(text) ==
    LET dropCR(l) == IF Len(l) > 0 /\ l[Len(l)] = "\r" THEN SubSeq(l, 1, Len(l) - 1) ELSE l
        i == IndexOf(text, "\n")
    IN  IF Len(text) = 0 THEN <<>>
        ELSE IF i = 0 THEN <<dropCR(text)>>
        ELSE <<dropCR(SubSeq(text, 1, i - 1))>> \o ScanLines(SubSeq(text, i + 1, Len(text)))

----------------------------------------------------------------------------
(* Save / Load *)

\* An io.Writer: the characters it received; `fails` when each of its Write calls
\* returns an error, `failed` once one did
NewSink(fails) == [data |-> <<>>, fails |-> fails, failed |-> FALSE]

\* w.Write(p)
SinkWrite(w, p) ==
    IF w.fails THEN [w EXCEPT !.failed = TRUE] ELSE [w EXCEPT !.data = @ \o p]

\* bufio.NewWriter(w): an empty buffer in front of w, no error yet
NewWriter(w) == [buf |-> <<>>, err |-> FALSE, w |-> w]

\* bufio.Writer.Flush: the buffer goes to the writer; its error sticks to the Writer
Flush(br) ==
    IF br.err \/ Len(br.buf) = 0 THEN br
    ELSE IF br.w.fails THEN [br EXCEPT !.w = SinkWrite(br.w, br.buf), !.err = TRUE]
    ELSE [br EXCEPT !.w = SinkWrite(br.w, br.buf), !.buf = <<>>]

RECURSIVE WriteString(_, _)
\* bufio.Writer.WriteString: [br, err]; the writer is reached only when the buffer is full
WriteString(br, s) ==
    LET avail == defaultBufSize - Len(br.buf)
    IN  IF Len(s) > avail /\ ~br.err
        THEN WriteString(Flush([br EXCEPT !.buf = @ \o SubSeq(s, 1, avail)]),
                         SubSeq(s, avail + 1, Len(s)))
        ELSE IF br.err THEN [br |-> br, err |-> TRUE]
        ELSE [br |-> [br EXCEPT !.buf = @ \o s], err |-> FALSE]

\* "%s=%d\n"
VersionLine(ver) == tagVersion \o <<"=">> \o FormatInt(ver) \o <<"\n">>

\* "%s %v %v %d\n"
BuildingLine(b) ==
    Join(<<DefClass(buildingDefs, b.DefIdx), FormatInt(b.Pos.X), FormatInt(b.Pos.Y),
           FormatInt(b.Rot)>>, <<" ">>) \o <<"\n">>

\* "%s %v %v %v %v\n"
PathLine(p) ==
    Join(<<DefClass(pathDefs, p.DefIdx), FormatInt(p.Start.X), FormatInt(p.Start.Y),
           FormatInt(p.End.X), FormatInt(p.End.Y)>>, <<" ">>) \o <<"\n">>

\* "%s %v %v %v %v %v\n" with the quoted content
TextBoxLine(tb) ==
    Join(<<textboxClass, FormatInt(tb.Bounds.X), FormatInt(tb.Bounds.Y),
           FormatInt(tb.Bounds.Width), FormatInt(tb.Bounds.Height),
           Quote(tb.Content)>>, <<" ">>) \o <<"\n">>

\* The strings SaveToText writes, in order: version, buildings, paths, text boxes
SaveLines(c) ==
    <<VersionLine(version)>>
    \o [i \in 1..Len(c.Buildings) |-> BuildingLine(c.Buildings[i])]
    \o [i \in 1..Len(c.Paths) |-> PathLine(c.Paths[i])]
    \o [i \in 1..Len(c.TextBoxes) |-> TextBoxLine(c.TextBoxes[i])]

RECURSIVE WriteLines(_, _)
\* The WriteString calls of SaveToText: the first error ends them
WriteLines(br, lines) ==
    IF Len(lines) = 0 THEN [br |-> br, err |-> FALSE]
    ELSE LET r == WriteString(br, lines[1])
         IN  IF r.err THEN r ELSE WriteLines(r.br, Tail(lines))

\* Scene.SaveToText on collection c and writer w: [w, err]; the deferred Flush runs
\* last and its result is dropped
SaveTo(c, w) ==
    LET r == WriteLines(NewWriter(w), SaveLines(c))
    IN  [w |-> Flush(r.br).w,
         err |-> IF r.err THEN DecodeTextError(msgSink, FALSE, 0, 0) ELSE nil]

\* Result of LoadFromText / decodeText: the collection, the error, and for an error the
\* position in the input of the last line read (0 when no line was read)
Loaded(c, e, at) == [col |-> c, err |-> e, at |-> at]

\* decodeText, the text box branch once its five fields are parsed
decodeTextBoxVals(c, x, y, w, h, q, no, ver, at) ==
    IF ~x.ok \/ ~y.ok \/ ~w.ok \/ ~h.ok \/ ~q.ok
    THEN Loaded(c, DecodeTextError(msgInvalidTextBox, TRUE, no, ver), at)
    ELSE Loaded([c EXCEPT !.TextBoxes =
                    Append(@, TextBox(NewRect(x.val, y.val, w.val, h.val), q.val))],
                nil, at)

\* decodeText, the text box branch on the pieces of strings.SplitN(fields, " ", 5)
decodeTextBoxElts(c, elts, no, ver, at) ==
    IF Len(elts) # 5
    THEN Loaded(c, DecodeTextError(msgInvalidTextBox, FALSE, no, ver), at)
    ELSE decodeTextBoxVals(c, ParseFloat32(elts[1]), ParseFloat32(elts[2]),
                           ParseFloat32(elts[3]), ParseFloat32(elts[4]),
                           Unquote(elts[5]), no, ver, at)

\* decodeText, the text box branch on the fields of a line
decodeTextBox(c, fields, no, ver, at) == decodeTextBoxElts(c, SplitN(fields, 5), no, ver, at)

\* Faulty classification: the building registry is looked up before the path registry
lineKindBuildingsFirst(class) ==
    IF class = textboxClass THEN "textbox"
    ELSE IF DefIndex(buildingDefs, class) >= 0 THEN "building"
    ELSE IF DefIndex(pathDefs, class) >= 0 THEN "path"
    ELSE "unknown"

\* The branch decodeText takes for a class token: text box, else path registry, else
\* building registry, else unknown class
lineKind(class) ==
    IF class = textboxClass THEN "textbox"
    ELSE IF DefIndex(pathDefs, class) >= 0 THEN "path"
    ELSE IF DefIndex(buildingDefs, class) >= 0 THEN "building"
    ELSE "unknown"

RECURSIVE decodeLines(_, _, _, _, _, _, _)
\* decodeText after a text box line gave r: its error is returned, or the loop goes on
decodeAfterTextBox(r, lines, no, ver, p, b, at) ==
    IF r.err # nil THEN r
    ELSE decodeLines(r.col, Tail(lines), no + 1, ver, p, b, at)

\* Faulty path branch: a line that does not parse still appends the scratch path
decodePathKeepsFailed(c, lines, defIdx, f, no, ver, p, b, at) ==
    IF ~f.ok
    THEN Loaded([c EXCEPT !.Paths = Append(@, [p EXCEPT !.DefIdx = defIdx])],
                DecodeTextError(msgInvalidPath, TRUE, no, ver), at)
    ELSE decodeLines([c EXCEPT !.Paths =
                         Append(@, [p EXCEPT !.DefIdx = defIdx,
                                             !.Start = vec2(f.vals[1], f.vals[2]),
                                             !.End = vec2(f.vals[3], f.vals[4])])],
                     Tail(lines), no + 1, ver,
                     [p EXCEPT !.DefIdx = defIdx,
                               !.Start = vec2(f.vals[1], f.vals[2]),
                               !.End = vec2(f.vals[3], f.vals[4])],
                     b, at)

\* decodeText, the path branch: f is what Sscanf read into the scratch path p
decodePath(c, lines, defIdx, f, no, ver, p, b, at) ==
    IF ~f.ok THEN Loaded(c, DecodeTextError(msgInvalidPath, TRUE, no, ver), at)
    ELSE decodeLines([c EXCEPT !.Paths =
                         Append(@, [p EXCEPT !.DefIdx = defIdx,
                                             !.Start = vec2(f.vals[1], f.vals[2]),
                                             !.End = vec2(f.vals[3], f.vals[4])])],
                     Tail(lines), no + 1, ver,
                     [p EXCEPT !.DefIdx = defIdx,
                               !.Start = vec2(f.vals[1], f.vals[2]),
                               !.End = vec2(f.vals[3], f.vals[4])],
                     b, at)

\* Faulty building branch: the appended building keeps the rotation that the line before
\* left in the scratch building
decodeBuildingStaleRot(c, lines, defIdx, f, no, ver, p, b, at) ==
    IF ~f.ok THEN Loaded(c, DecodeTextError(msgInvalidBuilding, TRUE, no, ver), at)
    ELSE decodeLines([c EXCEPT !.Buildings =
                         Append(@, [b EXCEPT !.DefIdx = defIdx,
                                             !.Pos = vec2(f.vals[1], f.vals[2])])],
                     Tail(lines), no + 1, ver, p,
                     [b EXCEPT !.DefIdx = defIdx,
                               !.Pos = vec2(f.vals[1], f.vals[2]),
                               !.Rot = f.vals[3]],
                     at)

\* decodeText, the building branch: f is what Sscanf read into the scratch building b
decodeBuilding(c, lines, defIdx, f, no, ver, p, b, at) ==
    IF ~f.ok THEN Loaded(c, DecodeTextError(msgInvalidBuilding, TRUE, no, ver), at)
    ELSE decodeLines([c EXCEPT !.Buildings =
                         Append(@, [b EXCEPT !.DefIdx = defIdx,
                                             !.Pos = vec2(f.vals[1], f.vals[2]),
                                             !.Rot = f.vals[3]])],
                     Tail(lines), no + 1, ver, p,
                     [b EXCEPT !.DefIdx = defIdx,
                               !.Pos = vec2(f.vals[1], f.vals[2]),
                               !.Rot = f.vals[3]],
                     at)

\* decodeText on one non-empty line cut into its class token and its fields
decodeLine(c, lines, class, fields, no, ver, p, b, at) ==
    IF lineKind(class) = "textbox"
    THEN decodeAfterTextBox(decodeTextBox(c, fields, no, ver, at), lines, no, ver, p, b, at)
    ELSE IF lineKind(class) = "path"
    THEN decodePath(c, lines, DefIndex(pathDefs, class), Sscanf(fields, 4),
                    no, ver, p, b, at)
    ELSE IF lineKind(class) = "building"
    THEN decodeBuilding(c, lines, DefIndex(buildingDefs, class), Sscanf(fields, 3),
                        no, ver, p, b, at)
    ELSE Loaded(c, DecodeTextError(msgInvalidClass, FALSE, no, ver), at)

\* The loop of decodeText over the lines left to scan: no is the line counter, which an
\* empty line does not advance, p and b are the scratch path and building, at is the
\* position in the input of the last line read
decodeLines(c, lines, no, ver, p, b, at) ==
    IF Len(lines) = 0 THEN Loaded(c, nil, 0)
    ELSE IF Len(lines[1]) = 0 THEN decodeLines(c, Tail(lines), no, ver, p, b, at + 1)
    ELSE decodeLine(c, lines, Cut(lines[1]).before, Cut(lines[1]).after,
                    no, ver, p, b, at + 1)

\* Scene.decodeText: the lines after the first, counted from 2, zero-valued scratch values
decodeText(c, lines, ver) ==
    decodeLines(c, lines, 2, ver, Path(0, vec2(0, 0), vec2(0, 0)),
                Building(0, vec2(0, 0), 0), 1)

\* Faulty version switch: every version that is not negative is decoded as version 0
LoadVersionAny(c, lines, v) ==
    IF ~v.ok THEN Loaded(c, DecodeTextError(msgInvalidVersionLine, TRUE, 1, 0), 1)
    ELSE IF v.val < 0
    THEN Loaded(c, DecodeTextError(msgInvalidVersionNumber, FALSE, 1, 0), 1)
    ELSE decodeText(c, Tail(lines), v.val)

\* LoadFromText once the first line is scanned as v: the version is checked, then the
\* function for that version is called
LoadVersion(c, lines, v) ==
    IF ~v.ok THEN Loaded(c, DecodeTextError(msgInvalidVersionLine, TRUE, 1, 0), 1)
    ELSE IF v.val < 0
    THEN Loaded(c, DecodeTextError(msgInvalidVersionNumber, FALSE, 1, 0), 1)
    ELSE IF v.val = 0 THEN decodeText(c, Tail(lines), v.val)
    ELSE Loaded(c, DecodeTextError(msgVersionTooHigh, FALSE, 1, v.val), 1)

\* LoadFromText on the lines of the reader: no first line, or an empty one, is an empty file
LoadLines(c, lines) ==
    IF Len(lines) = 0 THEN Loaded(c, DecodeTextError(msgEmpty, FALSE, 0, 0), 0)
    ELSE IF Len(lines[1]) = 0 THEN Loaded(c, DecodeTextError(msgEmpty, FALSE, 0, 0), 1)
    ELSE LoadVersion(c, lines, SscanfVersion(lines[1]))

\* Scene.LoadFromText on collection c and the text of the reader
LoadFrom(c, text) == LoadLines(c, ScanLines(text))

\* The codec variables before any call: an empty writer, nothing read, no error
codecInit ==
    /\ sink = NewSink(FALSE)
    /\ sinkOf = EmptyCollection
    /\ reader = [text |-> <<>>, at |-> 0]
    /\ err = nil
    /\ loads = 0

\* Scene.SaveToText(w) on a writer that accepts every Write, or fails each of them
SaveToText(fails) ==
    /\ ~panicked
    /\ LET r == SaveTo(col, NewSink(fails))
       IN  /\ sink' = r.w
           /\ err' = r.err
           /\ ret' = Ret("SaveToText", r.err = nil, EmptySelection)
    /\ sinkOf' = col
    /\ rt' = 0
    /\ UNCHANGED <<Paths, Buildings, TextBoxes, history, historyPos, savedHistoryPos,
                   Hovered, selection, mouse, panicked, savedCol, applyObs, reader, loads,
                   col0, trip>>

\* The scene after LoadFromText decoded r from text
loadResult(r, text) ==
    /\ Paths' = r.col.Paths
    /\ Buildings' = r.col.Buildings
    /\ TextBoxes' = r.col.TextBoxes
    /\ err' = r.err
    /\ reader' = [text |-> text, at |-> r.at]
    /\ ret' = Ret("LoadFromText", r.err = nil, EmptySelection)

\* Scene.LoadFromText(r) on a reader holding text
LoadFromText(text) ==
    /\ ~panicked
    /\ loads < MaxLoad
    /\ loadResult(LoadFrom(col, text), text)
    /\ before' = col
    /\ loads' = loads + 1
    /\ rt' = 0
    /\ UNCHANGED <<history, historyPos, savedHistoryPos, Hovered, selection, mouse,
                   panicked, savedCol, after, ids, discarded, applied, sink, sinkOf,
                   col0, trip>>

\* A new, zero-valued Scene; the writer of the last save stays as it is
NewScene ==
    /\ Paths' = <<>>
    /\ Buildings' = <<>>
    /\ TextBoxes' = <<>>
    /\ history' = <<>>
    /\ historyPos' = 0
    /\ savedHistoryPos' = 0
    /\ Hovered' = EmptyObject
    /\ selection' = EmptySelection
    /\ panicked' = FALSE
    /\ ret' = Ret("NewScene", TRUE, EmptySelection)
    /\ rt' = 0
    /\ before' = EmptyCollection
    /\ after' = [col |-> EmptyCollection, pos |-> 0]
    /\ savedCol' = EmptyCollection
    /\ ids' = <<>>
    /\ discarded' = {}
    /\ reader' = [text |-> <<>>, at |-> 0]
    /\ err' = nil
    /\ col0' = EmptyCollection
    /\ trip' = noTrip
    /\ UNCHANGED <<mouse, applied, sink, sinkOf, loads>>

----------------------------------------------------------------------------
(* Specification of the scene and its history *)

Init ==
    /\ \E c \in InitCols :
          /\ Paths = c.Paths
          /\ Buildings = c.Buildings
          /\ TextBoxes = c.TextBoxes
          /\ before = c
          /\ after = [col |-> c, pos |-> 0]
          /\ savedCol = c
          /\ col0 = c
    /\ history = <<>>
    /\ historyPos = 0
    /\ savedHistoryPos = 0
    /\ Hovered = EmptyObject
    /\ selection = EmptySelection
    /\ mouse = vec2(0, 0)
    /\ panicked = FALSE
    /\ ret = Ret("NewScene", TRUE, EmptySelection)
    /\ rt = 0
    /\ ids = <<>>
    /\ discarded = {}
    /\ applied = 0
    /\ trip = noTrip
    /\ codecInit

Next ==
    \/ applied < MaxApply /\ \E path \in PathVals : AddPath(path)
    \/ applied < MaxApply /\ \E building \in BuildingVals : AddBuilding(building)
    \/ applied < MaxApply /\ \E tb \in TextBoxVals : AddTextBox(tb)
    \/ applied < MaxApply /\ \E c \in AddCols : AddObjects(c)
    \/ applied < MaxApply /\ \E sel \in CallerSels(col) : DeleteObjects(sel)
    \/ applied < MaxApply /\ \E sel \in CallerSels(col) :
                                 \E new \in NewValues(sel) : ModifyObjects(sel, new)
    \/ Undo
    \/ Redo
    \/ ResetModified
    \/ \E pos \in HoverPoints, key \in Bindings : Update(pos, key)

Spec == Init /\ [][Next]_vars

----------------------------------------------------------------------------
(* Specification of hit-testing: any scene, any valid selection, any point *)

\* Scenes given to GetObjectAt
HitCols == {LoadedCol, ObjectCollection(<<P2, P1>>, <<B3, B1>>, <<T2, T1>>)}

\* Largest number of objects of one kind in the selection given to GetObjectAt
MaxSelected == 2

InitHit ==
    /\ \E c \in HitCols :
          /\ Paths = c.Paths
          /\ Buildings = c.Buildings
          /\ TextBoxes = c.TextBoxes
          /\ before = c
          /\ after = [col |-> c, pos |-> 0]
          /\ savedCol = c
          /\ col0 = c
          /\ selection \in Sels(c, MaxSelected)
    /\ history = <<>>
    /\ historyPos = 0
    /\ savedHistoryPos = 0
    /\ Hovered = EmptyObject
    /\ mouse = vec2(0, 0)
    /\ panicked = FALSE
    /\ ret = Ret("NewScene", TRUE, EmptySelection)
    /\ rt = 0
    /\ ids = <<>>
    /\ discarded = {}
    /\ applied = 0
    /\ trip = noTrip
    /\ codecInit

NextHit == \E pos \in Points, key \in Bindings : Update(pos, key)

SpecHit == InitHit /\ [][NextHit]_vars

----------------------------------------------------------------------------
(* Specification of the saved position: buildings added, undone, redone, the scene saved *)

NextSaved ==
    \/ applied < MaxSaved /\ \E building \in BuildingVals : AddBuilding(building)
    \/ Undo
    \/ Redo
    \/ ResetModified

SpecSaved == Init /\ [][NextSaved]_vars

----------------------------------------------------------------------------
(* Specification of deletion: a scene, any valid selection deleted, undone, redone *)

InitDelete ==
    /\ \E c \in HitCols :
          /\ Paths = c.Paths
          /\ Buildings = c.Buildings
          /\ TextBoxes = c.TextBoxes
          /\ before = c
          /\ after = [col |-> c, pos |-> 0]
          /\ savedCol = c
          /\ col0 = c
    /\ history = <<>>
    /\ historyPos = 0
    /\ savedHistoryPos = 0
    /\ Hovered = EmptyObject
    /\ selection = EmptySelection
    /\ mouse = vec2(0, 0)
    /\ panicked = FALSE
    /\ ret = Ret("NewScene", TRUE, EmptySelection)
    /\ rt = 0
    /\ ids = <<>>
    /\ discarded = {}
    /\ applied = 0
    /\ trip = noTrip
    /\ codecInit

NextDelete ==
    \/ applied < MaxDelete /\ \E sel \in Sels(col, MaxSelected) : DeleteObjects(sel)
    \/ Undo
    \/ Redo

SpecDelete == InitDelete /\ [][NextDelete]_vars

----------------------------------------------------------------------------
(* Specification of the text codec: scenes are saved, texts are loaded *)

\* A path with negative and two-digit coordinates
PN == Path(1, vec2(-1, 10), vec2(12, 0))

\* A path whose class is the text box class
PT == Path(3, vec2(0, 0), vec2(1, 0))

\* A building with a negative rotation
BN == Building(1, vec2(-2, 3), -1)

\* A building whose class is also a path class
BX == Building(2, vec2(0, 0), 1)

\* He "hi"
TQ == TextBox(NewRect(0, 0, 2, 1), <<"H", "e", " ", "\"", "h", "i", "\"">>)

\* A content with a backslash, a line break and a trailing space
TN == TextBox(NewRect(1, -1, 10, 2), <<"a", "\\", "\n", " ">>)

\* Scenes given to SaveToText
CodecCols ==
    { EmptyCollection,
      ObjectCollection(<<>>, <<B1>>, <<>>),
      ObjectCollection(<<P1, PN>>, <<B1, BN>>, <<TQ, TN>>),
      ObjectCollection(<<P1>>, <<BX>>, <<TQ>>),
      ObjectCollection(<<PT>>, <<B1>>, <<TN>>) }

\* The words of ws separated by one space
Words(ws) == Join(ws, <<" ">>)

\* First lines: the current version, higher versions, a negative version, no version
\* line, a version followed by other characters, no number, a blank line
HeaderVals ==
    { tagVersion \o <<"=", "0">>,
      tagVersion \o <<"=", "1">>,
      tagVersion \o <<"=", "1", "2">>,
      tagVersion \o <<"=", "-", "1">>,
      <<"h", "e", "l", "l", "o">>,
      tagVersion \o <<"=", "0", " ", "x">>,
      tagVersion \o <<"=">>,
      <<>> }

\* First lines that are followed by other lines in the texts
BodyHeaders ==
    { tagVersion \o <<"=", "0">>, tagVersion \o <<"=", "1">>, <<"h", "e", "l", "l", "o">> }

\* Lines after the first: well-formed ones, ones with too few or too many fields or a
\* field that is no number, a class of both registries, an unknown class, a blank line
LineVals ==
    { Words(<< <<"p">>, <<"0">>, <<"0">>, <<"2">>, <<"0">> >>),
      Words(<< <<"p">>, <<"1">>, <<"2">>, <<"3">> >>),
      Words(<< <<"p">>, <<"1">>, <<"2">>, <<"3">>, <<"4">>, <<"5">> >>),
      Words(<< <<"q">>, <<"1">>, <<"z">>, <<"3">>, <<"4">> >>),
      Words(<< <<"b">>, <<"1">>, <<"0">>, <<"2">> >>),
      Words(<< <<"b">>, <<"1">>, <<"0">> >>),
      Words(<< <<"c">>, <<"1">>, <<"0">>, <<"2">>, <<"7">> >>),
      Words(<< <<"x">>, <<"1">>, <<"2">>, <<"3">>, <<"4">> >>),
      Words(<< <<"x">>, <<"1">>, <<"2">>, <<"3">> >>),
      Words(<< textboxClass, <<"0">>, <<"0">>, <<"2">>, <<"1">>, <<"\"", "a", " ", "b", "\"">> >>),
      Words(<< textboxClass, <<"0">>, <<"0">>, <<"2">>, <<"1">> >>),
      Words(<< textboxClass, <<"0">>, <<"0">>, <<"2">>, <<"1">>, <<"a", "\"">> >>),
      Words(<< <<"z">>, <<"1">>, <<"2">> >>),
      <<>> }

RECURSIVE LineSeqs(_)
\* Sequences of at most k lines
LineSeqs(k) ==
    IF k = 0 THEN {<<>>}
    ELSE {<<>>} \cup {<<l>> \o t : l \in LineVals, t \in LineSeqs(k - 1)}

\* The text made of lines, each ended by a line break
Text(lines) == IF Len(lines) = 0 THEN <<>> ELSE Join(lines, <<"\n">>) \o <<"\n">>

\* Texts given to LoadFromText: the empty text, a first line alone, a first line
\* followed by at most MaxLines lines
Texts ==
    {<<>>}
    \cup {Text(<<h>>) : h \in HeaderVals}
    \cup {Text(<<h>> \o t) : h \in BodyHeaders, t \in LineSeqs(MaxLines)}

InitCodec ==
    /\ \E c \in CodecCols :
          /\ Paths = c.Paths
          /\ Buildings = c.Buildings
          /\ TextBoxes = c.TextBoxes
          /\ before = c
          /\ after = [col |-> c, pos |-> 0]
          /\ savedCol = c
          /\ col0 = c
    /\ history = <<>>
    /\ historyPos = 0
    /\ savedHistoryPos = 0
    /\ Hovered = EmptyObject
    /\ selection = EmptySelection
    /\ mouse = vec2(0, 0)
    /\ panicked = FALSE
    /\ ret = Ret("NewScene", TRUE, EmptySelection)
    /\ rt = 0
    /\ ids = <<>>
    /\ discarded = {}
    /\ applied = 0
    /\ trip = noTrip
    /\ codecInit

NextCodec ==
    \/ \E fails \in BOOLEAN : SaveToText(fails)
    \/ \E text \in Texts : LoadFromText(text)
    \/ LoadFromText(sink.data)
    \/ NewScene

SpecCodec == InitCodec /\ [][NextCodec]_vars

----------------------------------------------------------------------------
(* Properties *)

\* The mutators that record an operation through doSceneOp
ApplyCalls == {"AddPath", "AddBuilding", "AddTextBox", "AddObjects",
               "DeleteObjects", "ModifyObjects"}

\* The operation the last successful Undo reversed
undone == history[historyPos + 1]

\* The operation the last successful Redo replayed
redone == history[historyPos]

\* C1: an operation applied through doSceneOp and undone at once leaves each of the
\* three sequences exactly as it was before the operation (same length, same value
\* at every index).
C1_ApplyUndoRestores ==
    rt = 2 =>
        /\ Paths = before.Paths
        /\ Buildings = before.Buildings
        /\ TextBoxes = before.TextBoxes

\* An Apply; Undo round trip of a Delete of two buildings and of an Add of several kinds
C1_Witness ==
    /\ rt = 2
    /\ ret.op = "Undo"
    /\ undone.Type = "delete"
    /\ Len(undone.Sel.BuildingIdxs) = 2
    /\ Len(before.Buildings) = 3

\* C2: Apply; Undo; Redo leaves the three sequences exactly as they were right after the
\* Apply, and the history position at its value after the Apply.
C2_UndoRedoRestores ==
    rt = 3 =>
        /\ Paths = after.col.Paths
        /\ Buildings = after.col.Buildings
        /\ TextBoxes = after.col.TextBoxes
        /\ historyPos = after.pos

\* An Apply; Undo; Redo round trip of a Delete whose selection holds a partial path
C2_Witness ==
    /\ rt = 3
    /\ ret.op = "Redo"
    /\ redone.Type = "delete"
    /\ Len(AnyPathIdxs(redone.Sel.PathIdxs)) > Len(FullPathIdxs(redone.Sel.PathIdxs))
    /\ Len(FullPathIdxs(redone.Sel.PathIdxs)) > 0

\* C3: whenever IsModified() is false, the collection equals the collection at the last
\* ResetModified() (at construction if there was none).
C3_UnmodifiedMeansSaved ==
    ~IsModified =>
        /\ Paths = savedCol.Paths
        /\ Buildings = savedCol.Buildings
        /\ TextBoxes = savedCol.TextBoxes

\* C4: IsModified() is false right after construction and right after ResetModified();
\* after an Apply, Undo or Redo it is true exactly when the history position differs
\* from the saved position.
C4_IsModified ==
    /\ ret.op \in {"NewScene", "ResetModified"} => ~IsModified
    /\ ret.op \in ApplyCalls \cup {"Undo", "Redo"} =>
          (IsModified <=> historyPos # savedHistoryPos)

\* An Undo that brings the position back to a saved position other than 0
C4_Witness ==
    /\ ret.op = "Undo"
    /\ ret.ok
    /\ savedHistoryPos > 0
    /\ ~IsModified

\* C5: right after an operation is applied there is nothing to redo (HasRedo() is false
\* and the position is the length of the history, so Redo() fails), and no operation
\* trimmed from the history is in the history again, or is ever the one a Redo replays.
C5_ApplyDiscardsRedo ==
    /\ ret.op \in ApplyCalls => ~HasRedo /\ historyPos = Len(history)
    /\ Len(ids) = Len(history)
    /\ \A i \in 1..Len(ids) : ids[i] \notin discarded
    /\ (ret.op = "Redo" /\ ret.ok) => ids[historyPos] \notin discarded

\* An operation applied after an Undo: an undone operation has been discarded
C5_Witness ==
    /\ ret.op \in ApplyCalls
    /\ discarded # {}

\* C6: Undo() at position 0 and Redo() at the end of the history return false and change
\* neither the collection, nor the history, nor the two positions, nor Hovered.
C6_UnderflowChangesNothing ==
    [][((Undo /\ historyPos = 0) \/ (Redo /\ historyPos = Len(history))) =>
          /\ ~ret'.ok
          /\ UNCHANGED <<Paths, Buildings, TextBoxes, history, historyPos,
                         savedHistoryPos, Hovered>>]_vars

\* A failed Undo or Redo that found an object hovered and left it hovered
C6_Witness ==
    /\ ret.op \in {"Undo", "Redo"}
    /\ ~ret.ok
    /\ Hovered # EmptyObject

\* C7: the selection computed by the Redo of an Add that added k paths, m buildings and
\* t text boxes is the appended range: paths len-k .. len-1 with both flags set,
\* buildings len-m .. len-1, text boxes len-t .. len-1 (lengths after the append).
C7_RedoAddSelection ==
    (ret.op = "Redo" /\ ret.ok /\ redone.Type = "add") =>
        /\ ret.sel.PathIdxs =
              [i \in 1..Len(redone.New.Paths) |->
                  PathSel(Len(Paths) - Len(redone.New.Paths) + (i - 1), TRUE, TRUE)]
        /\ ret.sel.BuildingIdxs =
              Range(Len(Buildings) - Len(redone.New.Buildings), Len(Buildings))
        /\ ret.sel.TextBoxIdxs =
              Range(Len(TextBoxes) - Len(redone.New.TextBoxes), Len(TextBoxes))

\* C8 as stated: undoing an Add returns the empty selection; undoing a Delete or a Modify
\* returns op.Sel with its bounds recomputed against the restored collection.
C8_UndoSelectionRecomputed ==
    (ret.op = "Undo" /\ ret.ok) =>
        IF undone.Type = "add" THEN ret.sel = EmptySelection
        ELSE ret.sel = recomputeBounds(undone.Sel, col).sel

\* C8 amended: undoing an Add returns the empty selection; undoing a Modify returns
\* op.Sel with its bounds recomputed against the restored collection; undoing a Delete
\* returns op.Sel as stored, its bounds not recomputed.
C8_UndoSelection ==
    (ret.op = "Undo" /\ ret.ok) =>
        CASE undone.Type = "add" -> ret.sel = EmptySelection
          [] undone.Type = "delete" -> ret.sel = undone.Sel
          [] undone.Type = "modify" -> ret.sel = recomputeBounds(undone.Sel, col).sel

\* The Undo of a Modify whose selection was passed with out-of-date bounds
C8_Witness ==
    /\ ret.op = "Undo"
    /\ ret.ok
    /\ undone.Type = "modify"
    /\ undone.Sel.Bounds = StaleRect
    /\ ret.sel.Bounds # StaleRect

\* Indices of the selected paths, buildings, text boxes
SelectedPaths == {selection.PathIdxs[i].Idx : i \in 1..Len(selection.PathIdxs)}

SelectedBuildings == {selection.BuildingIdxs[i] : i \in 1..Len(selection.BuildingIdxs)}

SelectedTextBoxes == {selection.TextBoxIdxs[i] : i \in 1..Len(selection.TextBoxIdxs)}

\* Indices of the objects of each kind that contain the point
PathsAt(pos) ==
    {i \in 0..(Len(Paths) - 1) :
        \/ CheckStartCollisionPoint(Paths[i + 1], pos)
        \/ CheckEndCollisionPoint(Paths[i + 1], pos)
        \/ CheckCollisionPoint(Paths[i + 1], pos)}

BuildingsAt(pos) ==
    {i \in 0..(Len(Buildings) - 1) :
        RectCheckCollisionPoint(BuildingBounds(Buildings[i + 1]), pos)}

TextBoxesAt(pos) ==
    {i \in 0..(Len(TextBoxes) - 1) : RectCheckCollisionPoint(TextBoxes[i + 1].Bounds, pos)}

\* The objects of priority category k (1 = selected paths ... 6 = unselected text boxes)
\* that contain the point
CategoryAt(k, pos) ==
    CASE k = 1 -> PathsAt(pos) \cap SelectedPaths
      [] k = 2 -> BuildingsAt(pos) \cap SelectedBuildings
      [] k = 3 -> TextBoxesAt(pos) \cap SelectedTextBoxes
      [] k = 4 -> PathsAt(pos) \ SelectedPaths
      [] k = 5 -> BuildingsAt(pos) \ SelectedBuildings
      [] k = 6 -> TextBoxesAt(pos) \ SelectedTextBoxes

\* The priority category of an object reference (0 for the empty reference)
CategoryOf(o) ==
    CASE o.Type \in {"PathStart", "PathEnd", "Path"} ->
             IF o.Idx \in SelectedPaths THEN 1 ELSE 4
      [] o.Type = "Building" -> IF o.Idx \in SelectedBuildings THEN 2 ELSE 5
      [] o.Type = "TextBox" -> IF o.Idx \in SelectedTextBoxes THEN 3 ELSE 6
      [] OTHER -> 0

\* C9: the object GetObjectAt returns belongs to the first category, in the order selected
\* paths, selected buildings, selected text boxes, unselected paths, unselected buildings,
\* unselected text boxes, that has an object containing the point, and contains the point;
\* the empty reference is returned exactly when no object contains the point.
C9_HitPriority ==
    (ret.op = "Update" /\ ret.ok) =>
        LET cats == {k \in 1..6 : CategoryAt(k, mouse) # {}}
        IN  IF cats = {} THEN Hovered = EmptyObject
            ELSE /\ Hovered # EmptyObject
                 /\ CategoryOf(Hovered) = SetMin(cats)
                 /\ Hovered.Idx \in CategoryAt(SetMin(cats), mouse)

\* A selected building returned although an unselected path contains the point too
C9_Witness ==
    /\ ret.op = "Update"
    /\ ret.ok
    /\ Hovered.Type = "Building"
    /\ CategoryOf(Hovered) = 2
    /\ CategoryAt(1, mouse) = {}
    /\ CategoryAt(4, mouse) # {}
    /\ CategoryAt(3, mouse) # {}

\* C10: the object GetObjectAt returns has the highest collection index among the objects
\* of its category that contain the point, whatever the order of the selection's lists.
C10_HighestIndexInCategory ==
    (ret.op = "Update" /\ ret.ok /\ Hovered # EmptyObject) =>
        \A j \in CategoryAt(CategoryOf(Hovered), mouse) : j <= Hovered.Idx

\* C11: when GetObjectAt returns a reference to path i and the point lies in the start
\* hit-zone of path i, the kind is PathStart; when it lies in its end hit-zone (and not in
\* its start hit-zone), the kind is PathEnd; the kind is never Path in either zone, also
\* when path i is selected with only one of its two flags set.
C11_EndpointsBeforeBody ==
    (ret.op = "Update" /\ ret.ok /\ Hovered.Type \in {"PathStart", "PathEnd", "Path"}) =>
        LET p == Paths[Hovered.Idx + 1]
        IN  /\ CheckStartCollisionPoint(p, mouse) => Hovered.Type = "PathStart"
            /\ (CheckEndCollisionPoint(p, mouse) /\ ~CheckStartCollisionPoint(p, mouse)) =>
                  Hovered.Type = "PathEnd"

\* C19: in every reachable state the history position is between 0 and the length of
\* the history.
C19_HistoryPosInRange == historyPos >= 0 /\ historyPos <= Len(history)

\* An Undo that left the position strictly inside a history of two operations
C19_Witness ==
    /\ ret.op = "Undo"
    /\ ret.ok
    /\ historyPos = 1
    /\ Len(history) = 2

\* t is s without the elements at the (0-based, distinct) positions idxs
RemovedAt(s, t, idxs) ==
    LET gone == {idxs[i] + 1 : i \in 1..Len(idxs)}
    IN  /\ Len(t) = Len(s) - Cardinality(gone)
        /\ \A v \in {s[i] : i \in 1..Len(s)} \cup {t[i] : i \in 1..Len(t)} :
              Cardinality({i \in 1..Len(t) : t[i] = v})
                  = Cardinality({i \in (1..Len(s)) \ gone : s[i] = v})

\* t is s with new[i] at the (0-based, distinct) position idxs[i], nothing else changed
OverwrittenAt(s, t, idxs, new) ==
    /\ Len(t) = Len(s)
    /\ \A i \in 1..Len(idxs) : t[idxs[i] + 1] = new[i]
    /\ \A j \in 1..Len(s) : (\A i \in 1..Len(idxs) : idxs[i] + 1 # j) => t[j] = s[j]

\* C20: an Apply from position P and history h leaves the first P entries of h followed
\* by the new operation, length and position P + 1, and the collection changed by the
\* operation once: an Add appends New to each sequence, a Delete removes the selected
\* positions, a Modify overwrites the selected positions with New.
C20_ApplyStep ==
    [][applied' = applied + 1 =>
          LET op == history'[Len(history')]
          IN  /\ Len(history') = historyPos + 1
              /\ historyPos' = historyPos + 1
              /\ SubSeq(history', 1, historyPos) = SubSeq(history, 1, historyPos)
              /\ CASE op.Type = "add" ->
                        /\ Paths' = Paths \o op.New.Paths
                        /\ Buildings' = Buildings \o op.New.Buildings
                        /\ TextBoxes' = TextBoxes \o op.New.TextBoxes
                   [] op.Type = "delete" ->
                        /\ RemovedAt(Paths, Paths', FullPathIdxs(op.Sel.PathIdxs))
                        /\ RemovedAt(Buildings, Buildings', op.Sel.BuildingIdxs)
                        /\ RemovedAt(TextBoxes, TextBoxes', op.Sel.TextBoxIdxs)
                   [] op.Type = "modify" ->
                        /\ OverwrittenAt(Paths, Paths', AnyPathIdxs(op.Sel.PathIdxs),
                                         op.New.Paths)
                        /\ OverwrittenAt(Buildings, Buildings', op.Sel.BuildingIdxs,
                                         op.New.Buildings)
                        /\ OverwrittenAt(TextBoxes, TextBoxes', op.Sel.TextBoxIdxs,
                                         op.New.TextBoxes)]_vars

\* A Modify applied after an Undo: the undone operation is dropped, the new one recorded
C20_Witness ==
    /\ ret.op = "ModifyObjects"
    /\ discarded # {}
    /\ historyPos = Len(history)
    /\ history[historyPos].Type = "modify"
    /\ Len(history[historyPos].Sel.BuildingIdxs) = 2

\* TRUE when class is one of the class names of the registry defs
InRegistry(defs, class) == \E i \in 1..Len(defs) : defs[i] = class

\* A collection with an object of each kind whose path and building class names are
\* distinct from each other and from the text box class
RoundTrippable(c) ==
    /\ Len(c.Paths) > 0 /\ Len(c.Buildings) > 0 /\ Len(c.TextBoxes) > 0
    /\ \A i \in 1..Len(c.Paths) :
          LET class == pathDefs[c.Paths[i].DefIdx + 1]
          IN  /\ class # textboxClass
              /\ ~InRegistry(buildingDefs, class)
              /\ \A j \in 1..Len(pathDefs) : pathDefs[j] = class => j = c.Paths[i].DefIdx + 1
    /\ \A i \in 1..Len(c.Buildings) :
          LET class == buildingDefs[c.Buildings[i].DefIdx + 1]
          IN  /\ class # textboxClass
              /\ ~InRegistry(pathDefs, class)
              /\ \A j \in 1..Len(buildingDefs) :
                    buildingDefs[j] = class => j = c.Buildings[i].DefIdx + 1

\* The last call loaded, into an empty scene, the text a writer received in full from
\* SaveToText
LoadedSaved ==
    /\ ret.op = "LoadFromText"
    /\ reader.text = sink.data
    /\ ~sink.failed
    /\ before = EmptyCollection

\* C12: SaveToText followed by LoadFromText into an empty scene gives a collection equal
\* to the saved one (same paths, buildings and text boxes, in the same order), for a
\* collection with an object of each kind and class names distinct from each other and
\* from "TextBox", whatever the content of the text boxes.
C12_SaveLoadRoundTrip ==
    (LoadedSaved /\ RoundTrippable(sinkOf)) =>
        /\ err = nil
        /\ Paths = sinkOf.Paths
        /\ Buildings = sinkOf.Buildings
        /\ TextBoxes = sinkOf.TextBoxes

\* A scene with two text boxes, one with quotes and one with a backslash and a line break
\* in its content, saved and loaded back
C12_Witness ==
    /\ LoadedSaved
    /\ RoundTrippable(sinkOf)
    /\ Len(sinkOf.TextBoxes) = 2
    /\ \E i \in 1..Len(sinkOf.TextBoxes[1].Content) : sinkOf.TextBoxes[1].Content[i] = "\""
    /\ \E i \in 1..Len(sinkOf.TextBoxes[2].Content) : sinkOf.TextBoxes[2].Content[i] = "\n"
    /\ Len(TextBoxes) = 2

\* The lines of the text given to the last LoadFromText
readerLines == ScanLines(reader.text)

\* The versions above the current one that the texts may announce
HighVersions == 1..20

\* C13: when the first line of the input is #VERSION=v with v > 0, LoadFromText fails
\* with the "version is too high" error carrying Version = v and Line = 1, and the
\* collection is as it was, whatever lines follow.
C13_VersionTooHigh ==
    \A v \in HighVersions :
        (/\ ret.op = "LoadFromText"
         /\ Len(readerLines) > 0
         /\ readerLines[1] = tagVersion \o <<"=">> \o FormatInt(v)) =>
            /\ err.Msg = msgVersionTooHigh
            /\ err.Version = v
            /\ err.Line = 1
            /\ col = before

\* A text of version 1 with two lines after the first, loaded into a scene with objects
C13_Witness ==
    /\ ret.op = "LoadFromText"
    /\ Len(readerLines) = 3
    /\ readerLines[1] = tagVersion \o <<"=", "1">>
    /\ Len(readerLines[2]) > 0
    /\ Len(before.Paths) > 0
    /\ err.Msg = msgVersionTooHigh

\* The first lines of the form #VERSION=<int>
VersionLines == {tagVersion \o <<"=">> \o FormatInt(v) : v \in -20..20}

\* C14: when the first line of the input is not empty and not of the form
\* #VERSION=<int>, LoadFromText fails with the "invalid version line" error at Line = 1
\* and the collection is as it was.
C14_InvalidVersionLine ==
    (/\ ret.op = "LoadFromText"
     /\ Len(readerLines) > 0
     /\ Len(readerLines[1]) > 0
     /\ readerLines[1] \notin VersionLines) =>
        /\ err.Msg = msgInvalidVersionLine
        /\ err.Line = 1
        /\ col = before

\* C15: the Line of the error LoadFromText returns is the 1-based position in the input
\* of the line at which decoding failed, blank lines counted.
C15_ErrorLine ==
    (ret.op = "LoadFromText" /\ err # nil) => err.Line = reader.at

\* The last call loaded a text of version 0 that has a non-empty line after the first
hasBody ==
    /\ ret.op = "LoadFromText"
    /\ Len(readerLines) > 1
    /\ readerLines[1] = tagVersion \o <<"=", "0">>
    /\ \E i \in 2..Len(readerLines) : Len(readerLines[i]) > 0

\* The first non-empty line after the first line
firstBody ==
    readerLines[CHOOSE i \in 2..Len(readerLines) :
                   /\ Len(readerLines[i]) > 0
                   /\ \A j \in 2..(i - 1) : Len(readerLines[j]) = 0]

\* Its first token: what precedes its first space
firstClass ==
    IF \E i \in 1..Len(firstBody) : firstBody[i] = " "
    THEN SubSeq(firstBody, 1, (CHOOSE i \in 1..Len(firstBody) :
                                  /\ firstBody[i] = " "
                                  /\ \A j \in 1..(i - 1) : firstBody[j] # " ") - 1)
    ELSE firstBody

\* The number of its fields: its tokens after the first, one space between two tokens
firstFields == Cardinality({i \in 1..Len(firstBody) : firstBody[i] = " "})

\* C16: a non-empty line of a version 0 text is classified by its first token: "TextBox"
\* gives a text box, else a token of the path registry gives a path (also when the
\* building registry has it too), else a token of the building registry gives a
\* building, else decoding fails with the "unknown class" error; a line of a kind that
\* does not parse fails with the error of that kind.
C16_ClassOrder ==
    hasBody =>
        IF firstClass = textboxClass
        THEN \/ Len(TextBoxes) > Len(before.TextBoxes)
             \/ err.Msg = msgInvalidTextBox /\ col = before
        ELSE IF InRegistry(pathDefs, firstClass)
        THEN \/ /\ Len(Paths) > Len(before.Paths)
                /\ pathDefs[Paths[Len(before.Paths) + 1].DefIdx + 1] = firstClass
             \/ err.Msg = msgInvalidPath /\ col = before
        ELSE IF InRegistry(buildingDefs, firstClass)
        THEN \/ /\ Len(Buildings) > Len(before.Buildings)
                /\ buildingDefs[Buildings[Len(before.Buildings) + 1].DefIdx + 1] = firstClass
             \/ err.Msg = msgInvalidBuilding /\ col = before
        ELSE err.Msg = msgInvalidClass /\ col = before

\* A line whose class is in both registries gave a path
C16_Witness ==
    /\ hasBody
    /\ InRegistry(pathDefs, firstClass)
    /\ InRegistry(buildingDefs, firstClass)
    /\ Len(Paths) = Len(before.Paths) + 1
    /\ Len(Buildings) = Len(before.Buildings)
    /\ err = nil

\* Number of line breaks in text
lineBreaks(text) == Cardinality({i \in 1..Len(text) : text[i] = "\n"})

\* C17: SaveToText writes the version line, then a line for each building, each path and
\* each text box, in collection order: 1 + len(Buildings) + len(Paths) + len(TextBoxes)
\* lines; when the writer returns an error, SaveToText returns it.
C17_SaveLines ==
    ret.op = "SaveToText" =>
        IF sink.failed THEN err # nil
        ELSE /\ err = nil
             /\ lineBreaks(sink.data) = 1 + Len(Buildings) + Len(Paths) + Len(TextBoxes)
             /\ sink.data =
                   Join(<<VersionLine(version)>>
                        \o [i \in 1..Len(Buildings) |-> BuildingLine(Buildings[i])]
                        \o [i \in 1..Len(Paths) |-> PathLine(Paths[i])]
                        \o [i \in 1..Len(TextBoxes) |-> TextBoxLine(TextBoxes[i])], <<>>)

\* C18: a line whose class is a path class is accepted only with exactly 4 fields, a
\* line whose class is a building class only with exactly 3; with fewer or more fields
\* decoding fails with the invalid-path (invalid-building) error and nothing is appended.
C18_FieldCount ==
    (hasBody /\ firstClass # textboxClass) =>
        /\ (InRegistry(pathDefs, firstClass) /\ firstFields # 4) =>
              err.Msg = msgInvalidPath /\ col = before
        /\ (~InRegistry(pathDefs, firstClass) /\ InRegistry(buildingDefs, firstClass)
               /\ firstFields # 3) =>
              err.Msg = msgInvalidBuilding /\ col = before

\* The values of s at the 0-based positions idxs, in the order of idxs
ValuesAt(s, idxs) == [i \in 1..Len(idxs) |-> s[idxs[i] + 1]]

\* The path entries of sel with both flags set, in selection order
fullEntries(sel) == SelectSeq(sel.PathIdxs, LAMBDA e : e.Start /\ e.End)

\* The indices of those entries
fullIdxs(sel) == [i \in 1..Len(fullEntries(sel)) |-> fullEntries(sel)[i].Idx]

\* C21: DeleteObjects(sel) records as Old the values, before the deletion, at the full
\* path indices (both flags set), the building indices and the text box indices of sel,
\* in selection order; each sequence gets shorter by the number of those indices; each
\* path of sel with one flag set is still in the collection.
C21_DeleteWholeObjects ==
    [][(applied' = applied + 1 /\ ret'.op = "DeleteObjects") =>
          LET op == history'[Len(history')]
          IN  /\ op.Type = "delete"
              /\ op.Old.Paths = ValuesAt(Paths, fullIdxs(op.Sel))
              /\ op.Old.Buildings = ValuesAt(Buildings, op.Sel.BuildingIdxs)
              /\ op.Old.TextBoxes = ValuesAt(TextBoxes, op.Sel.TextBoxIdxs)
              /\ Len(Paths') = Len(Paths) - Len(fullIdxs(op.Sel))
              /\ Len(Buildings') = Len(Buildings) - Len(op.Sel.BuildingIdxs)
              /\ Len(TextBoxes') = Len(TextBoxes) - Len(op.Sel.TextBoxIdxs)
              /\ \A i \in 1..Len(op.Sel.PathIdxs) :
                    ~(op.Sel.PathIdxs[i].Start /\ op.Sel.PathIdxs[i].End) =>
                        \E j \in 1..Len(Paths') :
                            Paths'[j] = Paths[op.Sel.PathIdxs[i].Idx + 1]]_vars

\* A deletion of the first path and of two buildings, the second and last path selected
\* by its start only: that path moved into the slot of the deleted one
C21_Witness ==
    /\ ret.op = "DeleteObjects"
    /\ history[1].Sel.PathIdxs = <<PathSel(1, TRUE, FALSE), PathSel(0, TRUE, TRUE)>>
    /\ Len(history[1].Sel.BuildingIdxs) = 2
    /\ Len(before.Paths) = 2
    /\ Len(Paths) = 1
    /\ Paths[1] = before.Paths[2]
    /\ Len(history[1].Old.Paths) = 1

\* TRUE when s is t followed by n more elements
ExtendsBy(s, t, n) == Len(s) = Len(t) + n /\ SubSeq(s, 1, Len(t)) = t

\* The non-empty lines between the first line and the line the last load stopped at
linesBeforeError == {i \in 2..(reader.at - 1) : Len(readerLines[i]) > 0}

\* The lines of the text of the last load that precede the line it stopped at
textBeforeError == Text(SubSeq(readerLines, 1, reader.at - 1))

\* C22: when LoadFromText fails at a line, the scene holds what it held before plus one
\* object for each non-empty line between the first line and the failing line, exactly
\* what loading the text cut before the failing line gives: the failing line and the
\* lines after it add nothing, the objects of the lines before it stay appended.
C22_StopsAtFirstError ==
    (ret.op = "LoadFromText" /\ err # nil) =>
        /\ \E np, nb, nt \in 0..Cardinality(linesBeforeError) :
              /\ np + nb + nt = Cardinality(linesBeforeError)
              /\ ExtendsBy(Paths, before.Paths, np)
              /\ ExtendsBy(Buildings, before.Buildings, nb)
              /\ ExtendsBy(TextBoxes, before.TextBoxes, nt)
        /\ reader.at >= 2 =>
              /\ LoadFrom(before, textBeforeError).err = nil
              /\ LoadFrom(before, textBeforeError).col = col

\* A load into a scene with objects that failed at its third line, after its second line
\* gave an object
C22_Witness ==
    /\ ret.op = "LoadFromText"
    /\ err # nil
    /\ reader.at = 3
    /\ Len(readerLines[2]) > 0
    /\ Len(before.Paths) > 0
    /\ Len(Paths) + Len(Buildings) + Len(TextBoxes)
          = Len(before.Paths) + Len(before.Buildings) + Len(before.TextBoxes) + 1

\* The positions in the text of the last load of the lines that gave an object: the
\* non-empty lines after the first, up to the end or to the line the load stopped at
decodedAt ==
    SelectSeq([i \in 1..(Len(readerLines) - 1) |-> i + 1],
              LAMBDA i : /\ Len(readerLines[i]) > 0
                         /\ err # nil => i < reader.at)

\* The tokens of a line: its pieces between single spaces
Tokens(line) == SplitN(line, Len(line) + 1)

\* The number a token spells
TokenVal(tok) == ParseFloat32(tok).val

\* The positions of the lines that gave a path, in order
pathLinesAt ==
    SelectSeq(decodedAt, LAMBDA i : /\ Tokens(readerLines[i])[1] # textboxClass
                                    /\ InRegistry(pathDefs, Tokens(readerLines[i])[1]))

\* The positions of the lines that gave a building, in order
buildingLinesAt ==
    SelectSeq(decodedAt, LAMBDA i : /\ Tokens(readerLines[i])[1] # textboxClass
                                    /\ ~InRegistry(pathDefs, Tokens(readerLines[i])[1])
                                    /\ InRegistry(buildingDefs, Tokens(readerLines[i])[1]))

\* C23: every path and every building that LoadFromText appends has its definition
\* index and each of its numeric fields from its own line, whatever the lines before it
\* left in the scratch path and the scratch building of decodeText.
C23_FieldsFromOwnLine ==
    (ret.op = "LoadFromText" /\ Len(readerLines) > 0
        /\ readerLines[1] = tagVersion \o <<"=", "0">>) =>
        /\ Len(Paths) = Len(before.Paths) + Len(pathLinesAt)
        /\ Len(Buildings) = Len(before.Buildings) + Len(buildingLinesAt)
        /\ \A k \in 1..Len(pathLinesAt) :
              LET t == Tokens(readerLines[pathLinesAt[k]])
                  rec == Paths[Len(before.Paths) + k]
              IN  /\ pathDefs[rec.DefIdx + 1] = t[1]
                  /\ rec.Start = vec2(TokenVal(t[2]), TokenVal(t[3]))
                  /\ rec.End = vec2(TokenVal(t[4]), TokenVal(t[5]))
                  /\ DOMAIN rec = {"DefIdx", "Start", "End"}
        /\ \A k \in 1..Len(buildingLinesAt) :
              LET t == Tokens(readerLines[buildingLinesAt[k]])
                  rec == Buildings[Len(before.Buildings) + k]
              IN  /\ buildingDefs[rec.DefIdx + 1] = t[1]
                  /\ rec.Pos = vec2(TokenVal(t[2]), TokenVal(t[3]))
                  /\ rec.Rot = TokenVal(t[4])
                  /\ DOMAIN rec = {"DefIdx", "Pos", "Rot"}

\* Two path lines that differ in every field, each appended as its line says
C23_Witness ==
    /\ ret.op = "LoadFromText"
    /\ err = nil
    /\ readerLines[1] = tagVersion \o <<"=", "0">>
    /\ Len(pathLinesAt) = 2
    /\ Len(Paths) = Len(before.Paths) + 2
    /\ Paths[Len(Paths)].DefIdx # Paths[Len(Paths) - 1].DefIdx
    /\ Paths[Len(Paths)].Start # Paths[Len(Paths) - 1].Start
    /\ Paths[Len(Paths)].End # Paths[Len(Paths) - 1].End

\* C24: in every state reached by Apply, Undo, Redo and ResetModified calls the saved
\* position designates a point of the history: 0 <= savedHistoryPos <= len(history).
C24_SavedPosInRange ==
    0 <= savedHistoryPos /\ savedHistoryPos <= Len(history)

\* C25: the selection a successful Undo or Redo returns has every path index below
\* len(Paths), every building index below len(Buildings) and every text box index below
\* len(TextBoxes) of the collection after that Undo or Redo, and recomputing its bounds
\* does not index out of range.
C25_ReturnedSelectionValid ==
    (ret.op \in {"Undo", "Redo"} /\ ret.ok) =>
        /\ ~panicked
        /\ SelInRange(ret.sel, col)

RECURSIVE Replay(_, _, _)
\* The collection c after the first n operations of h are performed in order
Replay(c, h, n) == IF n = 0 THEN c ELSE do(h[n], Replay(c, h, n - 1))

\* C26: the collection is the one at construction with the done prefix of the history
\* performed on it; n successful Undos followed by n successful Redos leave the three
\* sequences as they were before the Undos; at historyPos = 0 the collection is the one
\* at construction.
C26_DonePrefix ==
    ~panicked =>
        /\ col = Replay(col0, history, historyPos)
        /\ (trip.undos > 0 /\ trip.redos = trip.undos) =>
              /\ Paths = trip.col.Paths
              /\ Buildings = trip.col.Buildings
              /\ TextBoxes = trip.col.TextBoxes
        /\ historyPos = 0 => col = col0

\* Two Undos down to the start of the history, then two Redos, of a Delete and a Modify
C26_Witness ==
    /\ ~panicked
    /\ ret.op = "Redo"
    /\ trip.undos = 2
    /\ trip.redos = 2
    /\ historyPos = 2
    /\ {history[1].Type, history[2].Type} = {"delete", "modify"}
    /\ col # col0

====
